---- MODULE Spec2Model ----
(***************************************************************************)
(* xtrc: incremental indexer, vector store, metadata store, daemon and     *)
(* query engine, modelled as one state machine.                            *)
(*                                                                         *)
(* One repository is served by one daemon process.  Worker threads call    *)
(* daemon.index / daemon.query / daemon.status; every call on the         *)
(* metadata store (sqlite, one short transaction per call) and on the      *)
(* vector store (qdrant, one client call) is one atomic step.  The working *)
(* tree, the wall clock and the daemon's embedding model change through    *)
(* environment actions.                                                    *)
(***************************************************************************)
EXTENDS Integers, Sequences, FiniteSets, TLC

(***************************************************************************)
(* Bounds                                                                  *)
(***************************************************************************)
\* content versions of a file: 0 = absent from the tree, c >= 1 = the c-th
\* edit of its text
MaxContent == 2
\* largest value of the wall clock
MaxClock == 1
\* number of times the daemon is restarted with another embedding model
MaxModelChanges == 1

\* largest number of candidate matches of a ranked query
MaxMatches == 11
\* the most chunks of one upsert_chunks call
MaxBatch == 2
\* lines of a file and symbols of a file handed to the chunk builder
MaxLines == 4
MaxSymbols == 3
\* the most texts, and the most keys, of one embed_texts call
MaxTexts == 2
\* the longest a model call runs, in seconds
MaxDuration == 5
\* completion calls of one thread on one model client
MaxCalls == 2
\* the most matches handed to one LocalReranker.rerank call
MaxReranked == 4
\* steps between the cosine scores 0.0 and 1.0
Resolution == 10
\* gemini_timeout_seconds and llm_timeout_seconds, in seconds
timeout_seconds == 2
\* maxsize of the lru caches of the LLM clients and of the query rewriter
cache_size == 1
\* GeminiReranker.max_candidates: the number of matches serialized to the model
max_candidates == 2
\* gemini_threshold, in hundredths
threshold == 85

\* QueryEngine.query hands matches[:10] to the local reranker
RerankWindow == 10
\* LocalReranker.max_candidates (settings.local_reranker_top_k)
local_reranker_top_k == 10

Absent == 0
Threads == {"t1", "t2"}
Files == {"a.py", "b.py"}
\* os.walk order of the files of the tree
FileOrder == <<"a.py", "b.py">>
\* sentence-embedding dimensions of the models the daemon may be started with
Dims == {384, 768}
Contents == 1..MaxContent
\* dimension of the default model (Settings.model_name, BAAI/bge-base-en-v1.5)
DefaultDim == 768

(***************************************************************************)
(* Pure helpers of the indexer                                             *)
(***************************************************************************)
\* repo.sha256_text: collision free on the texts of the model
sha256_text(text) == <<"sha256", text>>

\* the symbols the parser finds in a text, each with the edit of its body:
\* every file holds two functions, an edit of the file rewrites the body of
\* the second and leaves the first as it was
Symbols == {1, 2}
SymbolBodies(text) == { <<1, 1>>, <<2, text>> }

\* ChunkBuilder.build_chunks: one chunk per symbol;
\* chunk_id = sha256(file|start|end|text), the symbol starts at line `symbol`
build_chunks(file_path, text, file_hash) ==
    { [chunk_id |-> <<file_path, sb[1], sb[2]>>, file_path |-> file_path,
       symbol |-> sb[1], start_line |-> sb[1], content_hash |-> file_hash]
      : sb \in SymbolBodies(text) }

ChunkIdsOf(chs) == { c.chunk_id : c \in chs }

\* IndexChunkSummarizer.build_embedding_text hashed by
\* EmbeddingService.hash_text: file, symbol, type, intent and description,
\* not the code, so an edited body keeps the cache key of its symbol
EmbeddingKey(chunk) == <<chunk.file_path, chunk.symbol>>

\* the query text, as cache key of embed_query
QueryKey == <<"query", 0>>

EmbeddingKeys == { <<f, s>> : f \in Files, s \in Symbols } \cup {QueryKey}

(***************************************************************************)
(* Metadata store (sqlite): tables as sets of rows                         *)
(***************************************************************************)
get_file_hashes(files_t) ==
    { [file_path |-> r.file_path, content_hash |-> r.content_hash] : r \in files_t }

upsert_file_hash(files_t, file_path, content_hash, now) ==
    { r \in files_t : r.file_path # file_path }
      \cup { [file_path |-> file_path, content_hash |-> content_hash,
              last_indexed_at |-> now] }

\* a delete that matches no row
delete_files_NoMatch(files_t, file_paths) == files_t

delete_files(files_t, file_paths) ==
    { r \in files_t : r.file_path \notin file_paths }

\* a lookup that finds no row
get_chunk_ids_for_file_Empty(chunks_t, file_path) == {}

get_chunk_ids_for_file(chunks_t, file_path) ==
    { r.chunk_id : r \in { x \in chunks_t : x.file_path = file_path } }

delete_chunks_by_file(chunks_t, file_path) ==
    { r \in chunks_t : r.file_path # file_path }

\* a delete that matches no row
delete_chunks_by_ids_NoMatch(chunks_t, chunk_ids) == chunks_t

delete_chunks_by_ids(chunks_t, chunk_ids) ==
    { r \in chunks_t : r.chunk_id \notin chunk_ids }

\* MetadataStore.upsert_chunks: INSERT ... ON CONFLICT(chunk_id) DO UPDATE
meta_upsert_chunks(chunks_t, new_chunks) ==
    { r \in chunks_t : r.chunk_id \notin ChunkIdsOf(new_chunks) } \cup new_chunks

\* a fetch whose WHERE clause matches every row
get_chunks_by_ids_All(chunks_t, chunk_ids) == chunks_t

get_chunks_by_ids(chunks_t, chunk_ids) ==
    { r \in chunks_t : r.chunk_id \in chunk_ids }

set_repo_last_indexed(now) == { [last_indexed_at |-> now] }

(***************************************************************************)
(* Embedding service over the persistent embedding table                   *)
(***************************************************************************)
\* dimension of the vector embed_texts resolves for a key: the cached row's
\* dimension when there is one, else the model's
ResolvedDim(emb_t, key, model_dim) ==
    IF emb_t[key] # 0 THEN emb_t[key] ELSE model_dim

\* EmbeddingService.embed_texts: cache rows are added for the keys the model
\* had to encode; np.stack raises when the resolved vectors differ in shape
embed_texts(emb_t, keys, model_dim) ==
    LET dims == { ResolvedDim(emb_t, k, model_dim) : k \in keys }
    IN [ embeddings |-> [k \in EmbeddingKeys |->
                            IF k \in keys /\ emb_t[k] = 0 THEN model_dim ELSE emb_t[k]],
         ok |-> Cardinality(dims) = 1,
         dim |-> IF Cardinality(dims) = 1 THEN CHOOSE d \in dims : TRUE ELSE 0 ]

(***************************************************************************)
(* Vector store (qdrant)                                                   *)
(***************************************************************************)
NoCollection == [exists |-> FALSE, size |-> 0, points |-> {}]

\* QdrantVectorStore.point_id: uuid5 of the chunk id
point_id(chunk_id) == <<"uuid5", chunk_id>>

\* ensure_collection without the size comparison of an existing collection
ensure_collection_NoSizeCheck(coll, vector_size, recreate) ==
    LET drop1 == recreate /\ coll.exists
    IN [ collection |-> IF coll.exists /\ ~drop1 THEN coll
                        ELSE [exists |-> TRUE, size |-> vector_size, points |-> {}],
         recreated |-> drop1 \/ ~coll.exists,
         dropped |-> drop1,
         created |-> drop1 \/ ~coll.exists ]

ensure_collection(coll, vector_size, recreate) ==
    LET drop1   == recreate /\ coll.exists
        exists1 == coll.exists /\ ~drop1
        drop2   == exists1 /\ ~recreate /\ coll.size # vector_size
        exists2 == exists1 /\ ~drop2
    IN [ collection |-> IF exists2 THEN coll
                        ELSE [exists |-> TRUE, size |-> vector_size, points |-> {}],
         recreated |-> drop1 \/ drop2 \/ ~exists2,
         dropped |-> drop1 \/ drop2,
         created |-> ~exists2 ]

\* QdrantVectorStore.upsert_chunks: ensure_collection at the vectors' width
\* (return value ignored), then one synchronous upsert
vec_upsert_chunks(coll, new_chunks, vector_dim) ==
    IF new_chunks = {} THEN coll
    ELSE LET ens == ensure_collection(coll, vector_dim, FALSE).collection
             pts == { [point_id |-> point_id(c.chunk_id), chunk_id |-> c.chunk_id,
                       file_path |-> c.file_path] : c \in new_chunks }
         IN [ens EXCEPT !.points =
                { p \in @ : p.point_id \notin { q.point_id : q \in pts } } \cup pts]

delete_chunk_ids(coll, chunk_ids) ==
    IF chunk_ids = {} \/ ~coll.exists THEN coll
    ELSE [coll EXCEPT !.points =
            { p \in @ : p.point_id \notin { point_id(c) : c \in chunk_ids } }]

delete_file_chunks(coll, file_path) ==
    IF ~coll.exists THEN coll
    ELSE [coll EXCEPT !.points = { p \in @ : p.file_path # file_path }]

\* a search that skips the size comparison
search_NoSizeCheck(coll, query_dim) ==
    [status |-> "ok",
     hits |-> IF coll.exists THEN { p.chunk_id : p \in coll.points } ELSE {},
     code |-> "", index_dim |-> 0, model_dim |-> 0]

\* QdrantVectorStore.search; every model collection holds fewer points than
\* the smallest candidate limit (12), so the limit never cuts the hit list
search(coll, query_dim) ==
    IF ~coll.exists
    THEN [status |-> "ok", hits |-> {}, code |-> "", index_dim |-> 0, model_dim |-> 0]
    ELSE IF coll.size # query_dim
    THEN [status |-> "error", hits |-> {}, code |-> "INDEX_DIMENSION_MISMATCH",
          index_dim |-> coll.size, model_dim |-> query_dim]
    ELSE [status |-> "ok", hits |-> { p.chunk_id : p \in coll.points },
          code |-> "", index_dim |-> 0, model_dim |-> 0]

count_chunks(coll) == IF ~coll.exists THEN 0 ELSE Cardinality(coll.points)

(***************************************************************************)
(* State                                                                   *)
(***************************************************************************)
VARIABLES
    fs,          \* working tree: file -> content version (0 = absent)
    clock,       \* datetime.now(UTC)
    modelDim,    \* EmbeddingService.dimension of the running daemon
    modelChanges,\* restarts with another embedding model so far
    files,       \* metadata store, table files
    chunks,      \* metadata store, table chunks
    repo_meta,   \* metadata store, table repo_meta (rows of this repository)
    embeddings,  \* metadata store, table embeddings: key -> dimension, 0 = no row
    collection,  \* the repository's qdrant collection
    repos,       \* AinavDaemon._repos has the repository's service bundle
    lock,        \* AinavDaemon._locks[key]: set of threads holding it
    guard,       \* AinavDaemon._guard: set of threads holding it
    created,     \* number of service bundles (and locks) the daemon has built
    th,          \* per worker thread: the call it serves, its position, its locals
    indexed_clean, \* history: the last index call completed, and neither the tree
                 \* nor the model has changed since that call started
    reranker,    \* one GeminiReranker.decide call: its arguments, position and result
    ranking,     \* the ranking steps of one query: its matches with their scores
    gemini,      \* GeminiClient: its lru cache of completions and its last invocation
    rewriter,    \* QueryRewriter and its LLMTextClient: their lru caches, the last call
    pool,        \* the executors of the model clients: running tasks, the last call
    embedder,    \* EmbeddingService: memory cache, persistent cache, the last call
    mstore,      \* MetadataStore with the rows of several repositories
    call         \* the last call of a component that is exercised on its own

vars == <<fs, clock, modelDim, modelChanges, files, chunks, repo_meta, embeddings, collection,
          repos, lock, guard, created, th, indexed_clean, reranker, ranking,
          gemini, rewriter, pool, embedder, mstore, call>>

store_vars == <<files, chunks, repo_meta, embeddings, collection>>
daemon_vars == <<repos, lock, guard, created>>
env_vars == <<fs, clock, modelDim, modelChanges>>
\* the components that are exercised on their own
unit_vars == <<reranker, ranking, gemini, rewriter, pool, embedder, mstore, call>>
\* everything but the components
system_vars == <<env_vars, store_vars, daemon_vars, th, indexed_clean>>

NoSelection == [file |-> "", line |-> 0, source |-> "", reason |-> <<>>]

\* locals of Indexer.index and QueryEngine.query, the returned IndexStats or
\* QueryOutcome, and history fields (pre_paths, pre_ids, skipped, clean, succ, old_new,
\* candidates, rewrite, local, llm, stale) that the code does not hold
IdleLocal ==
    [ op |-> "none", pc |-> "idle", rebuild |-> FALSE, promoted |-> FALSE,
      walk |-> {},
      changed |-> <<>>, deleted |-> <<>>, i |-> 1,
      old_chunk_ids |-> {}, new_chunks |-> {}, vec_dim |-> 0,
      files_scanned |-> 0, files_indexed |-> 0, files_deleted |-> 0,
      chunks_indexed |-> 0, result |-> "none", code |-> "", details |-> <<>>,
      hits |-> {}, matches |-> <<>>, selection |-> NoSelection,
      used_gemini |-> FALSE, rewritten_query |-> FALSE,
      pre_paths |-> {}, pre_ids |-> {}, skipped |-> {},
      clean |-> FALSE, succ |-> FALSE, old_new |-> {},
      candidates |-> 0, rewrite |-> "", local |-> "", llm |-> "",
      top_k |-> 0, stale |-> {} ]

\* no decide call is under way
RrIdle ==
    [ pc |-> "idle", matches |-> <<>>, enable_rewrite |-> FALSE, calls |-> 0,
      rewritten_query |-> FALSE, payload |-> <<>>,
      decided |-> FALSE, selection |-> NoSelection, used_gemini |-> FALSE ]

\* None, where a latency in milliseconds is expected
NoLatency == -1
\* GeminiClient.__init__: an empty cache, no invocation yet
GeminiInit ==
    [cache |-> <<>>,
     cur |-> [op |-> "", model_name |-> "", prompt |-> "", status |-> "none", value |-> "",
              called |-> FALSE, latency |-> NoLatency, repeat |-> FALSE, stored |-> FALSE]]

\* QueryRewriter.__init__ and LLMTextClient.__init__: empty caches, no
\* rewrite yet
RewriterInit(enabled, has_client) ==
    [enabled |-> enabled, has_client |-> has_client,
     rewrite_cache |-> <<>>, completion_cache |-> <<>>,
     cur |-> [query |-> "", out |-> [query |-> "", changed |-> FALSE, latency |-> NoLatency],
              client_calls |-> 0, model_calls |-> 0, failed |-> FALSE, repeat |-> FALSE]]

\* the clients that call an external model through an executor
ModelClients == {"GeminiClient", "LLMTextClient", "LocalReranker"}
\* no task is running and no call was made
PoolInit ==
    [running |-> [c \in ModelClients |-> <<>>],
     cur |-> [client |-> "", duration |-> 0, timed_out |-> FALSE, cancelled |-> FALSE,
              waited |-> 0, error |-> ""]]

\* no embed_texts call yet
NoEmbedCall ==
    [status |-> "none", texts |-> <<>>, keys |-> [given |-> FALSE, list |-> <<>>],
     result_keys |-> <<>>, vectors |-> <<>>, encoded |-> <<>>]
\* EmbeddingService.__init__ over a new metadata store: both caches empty,
\* self._memory_cache = {}
EmptyCache == [key \in {} |-> 0]
EmbedderInit == [memory_cache |-> EmptyCache, persisted |-> EmptyCache, cur |-> NoEmbedCall]

\* no query is being ranked
RkIdle == [pc |-> "idle", matches |-> <<>>, local |-> "", result |-> "none"]

Init ==
    /\ fs = [f \in Files |-> Absent]
    /\ clock = 0
    /\ modelDim = DefaultDim
    /\ modelChanges = 0
    /\ files = {}
    /\ chunks = {}
    /\ repo_meta = {}
    /\ embeddings = [k \in EmbeddingKeys |-> 0]
    /\ collection = NoCollection
    /\ repos = FALSE
    /\ lock = {}
    /\ guard = {}
    /\ created = 0
    /\ th = [t \in Threads |-> IdleLocal]
    /\ indexed_clean = FALSE
    /\ reranker = RrIdle
    /\ ranking = RkIdle
    /\ gemini = GeminiInit
    /\ rewriter = RewriterInit(TRUE, TRUE)
    /\ pool = PoolInit
    /\ embedder = EmbedderInit
    /\ mstore = [files |-> {}, chunks |-> EmptyCache, repo_meta |-> {},
                 embeddings |-> EmptyCache, llm_summaries |-> EmptyCache]
    /\ call = [op |-> "none"]

Set(t, r) == th' = [th EXCEPT ![t] = r]
At(t, p) == th[t].pc = p

(***************************************************************************)
(* Environment                                                             *)
(***************************************************************************)
\* A change of the tree or of the clock shows only in the next read of it, so
\* it is taken right before a read: some thread is about to walk or to read
\* the files, or about to take a timestamp.
TreeReadPending == \E t \in Threads : th[t].pc \in {"walk", "scan"}
ClockReadPending == \E t \in Threads : th[t].pc \in {"upsert_hash", "stamp"}

\* the user creates, edits or removes a file of the working tree
EditFile(f, c) ==
    /\ TreeReadPending
    /\ fs[f] # c
    /\ fs' = [fs EXCEPT ![f] = c]
    /\ th' = [t \in Threads |-> [th[t] EXCEPT !.clean = FALSE]]
    /\ indexed_clean' = FALSE
    /\ UNCHANGED <<unit_vars, clock, modelDim, modelChanges, store_vars, daemon_vars>>

Tick ==
    /\ ClockReadPending
    /\ clock < MaxClock
    /\ clock' = clock + 1
    /\ UNCHANGED <<unit_vars, fs, modelDim, modelChanges, store_vars, daemon_vars, th, indexed_clean>>

\* the daemon process is stopped and started again, possibly with another
\* embedding model; the stores on disk survive, AinavDaemon.__init__ runs
Restart(d) ==
    /\ \A t \in Threads : At(t, "idle")
    /\ IF d = modelDim
       THEN repos /\ modelChanges' = modelChanges
       ELSE modelChanges < MaxModelChanges /\ modelChanges' = modelChanges + 1
    /\ modelDim' = d
    /\ repos' = FALSE
    /\ lock' = {}
    /\ guard' = {}
    /\ created' = 0
    /\ indexed_clean' = (indexed_clean /\ d = modelDim)
    /\ UNCHANGED <<unit_vars, fs, clock, store_vars, th>>

(***************************************************************************)
(* AinavDaemon                                                             *)
(***************************************************************************)
AfterServices(op) ==
    CASE op = "index" -> "lock"
      [] op = "query" -> "q_embed"
      [] OTHER -> "status"

\* a worker thread is handed a request (api/routes.py, asyncio.to_thread)
Call(t, op, rebuild) ==
    /\ At(t, "idle")
    /\ Set(t, [IdleLocal EXCEPT !.op = op, !.rebuild = rebuild, !.pc = "services"])
    /\ UNCHANGED <<unit_vars, env_vars, store_vars, daemon_vars, indexed_clean>>

GuardFree == guard = {}

\* _get_or_create_repo_services: with self._guard
GuardAcquire(t) ==
    /\ At(t, "services")
    /\ GuardFree
    /\ guard' = guard \cup {t}
    /\ Set(t, [th[t] EXCEPT !.pc = "lookup"])
    /\ UNCHANGED <<unit_vars, env_vars, store_vars, repos, lock, created, indexed_clean>>

\* services = self._repos.get(key); return it when present
ServicesLookup(t) ==
    /\ At(t, "lookup")
    /\ IF repos
       THEN /\ guard' = guard \ {t}
            /\ Set(t, [th[t] EXCEPT !.pc = AfterServices(th[t].op)])
       ELSE /\ guard' = guard
            /\ Set(t, [th[t] EXCEPT !.pc = "create"])
    /\ UNCHANGED <<unit_vars, env_vars, store_vars, repos, lock, created, indexed_clean>>

\* build the bundle; self._repos[key] = services; self._locks[key] = Lock()
ServicesCreate(t) ==
    /\ At(t, "create")
    /\ repos' = TRUE
    /\ lock' = {}
    /\ created' = created + 1
    /\ guard' = guard \ {t}
    /\ Set(t, [th[t] EXCEPT !.pc = AfterServices(th[t].op)])
    /\ UNCHANGED <<unit_vars, env_vars, store_vars, indexed_clean>>

\* a lock that never blocks
LockFree_Reentrant == TRUE

LockFree == lock = {}

\* AinavDaemon.index: with self._locks[key]
LockAcquire(t) ==
    /\ At(t, "lock")
    /\ LockFree
    /\ lock' = lock \cup {t}
    /\ Set(t, [th[t] EXCEPT !.pc = "walk"])
    /\ UNCHANGED <<unit_vars, env_vars, store_vars, repos, guard, created, indexed_clean>>

\* AinavDaemon.status: metadata_store.get_status
Status(t) ==
    /\ At(t, "status")
    /\ Set(t, [th[t] EXCEPT !.pc = "done", !.result = "ok",
                            !.files_indexed = Cardinality(files),
                            !.chunks_indexed = Cardinality(chunks)])
    /\ UNCHANGED <<unit_vars, env_vars, store_vars, daemon_vars, indexed_clean>>

\* the call returns (or raises) to the API layer; a with-block lock is released
Finish(t) ==
    /\ At(t, "done")
    /\ lock' = lock \ {t}
    /\ Set(t, IdleLocal)
    /\ UNCHANGED <<unit_vars, env_vars, store_vars, repos, guard, created, indexed_clean>>

(***************************************************************************)
(* Indexer.index, one step per store call                                  *)
(***************************************************************************)
SetOfSeq(sq) == { sq[k] : k \in 1..Len(sq) }

\* position after the deletion loop: the first changed file, or the stamp
AfterDeletions(changed) == IF changed # <<>> THEN "get_old" ELSE "stamp"

\* position after the old chunks of a changed file are gone
AfterOldRemoved(new_chunks) == IF new_chunks # {} THEN "embed" ELSE "upsert_hash"

\* files = walk_source_files(repo_path); files_scanned = len(files)
IdxWalk(t) ==
    /\ At(t, "walk")
    /\ LET w == { f \in Files : fs[f] # Absent }
       IN Set(t, [th[t] EXCEPT !.walk = w, !.files_scanned = Cardinality(w),
                               !.pre_paths = { r.file_path : r \in files },
                               !.pre_ids = ChunkIdsOf(chunks),
                               !.clean = TRUE, !.succ = indexed_clean,
                               !.pc = IF th[t].rebuild THEN "clear" ELSE "ensure"])
    /\ UNCHANGED <<unit_vars, env_vars, store_vars, daemon_vars, indexed_clean>>

\* rebuild: metadata_store.clear_repo(repo_key)
IdxClear(t) ==
    /\ At(t, "clear")
    /\ files' = {}
    /\ chunks' = {}
    /\ repo_meta' = {}
    /\ Set(t, [th[t] EXCEPT !.pc = "ensure"])
    /\ UNCHANGED <<unit_vars, env_vars, embeddings, collection, daemon_vars, indexed_clean>>

\* vector_store.ensure_collection(repo_key, vector_size, recreate=rebuild)
IdxEnsure(t) ==
    /\ At(t, "ensure")
    /\ LET e == ensure_collection(collection, modelDim, th[t].rebuild)
       IN /\ collection' = e.collection
          /\ Set(t, [th[t] EXCEPT !.pc = IF ~th[t].rebuild /\ e.recreated
                                         THEN "clear_promoted" ELSE "scan"])
    /\ UNCHANGED <<unit_vars, env_vars, files, chunks, repo_meta, embeddings, daemon_vars, indexed_clean>>

\* recreated: metadata_store.clear_repo(repo_key); rebuild = True
IdxClearPromoted(t) ==
    /\ At(t, "clear_promoted")
    /\ files' = {}
    /\ chunks' = {}
    /\ repo_meta' = {}
    /\ Set(t, [th[t] EXCEPT !.rebuild = TRUE, !.promoted = TRUE, !.pc = "scan"])
    /\ UNCHANGED <<unit_vars, env_vars, embeddings, collection, daemon_vars, indexed_clean>>

\* history: for the files an index call re-indexes, the pairs {o, n} of a chunk
\* id o that only the file's chunk set at the start of the call holds and a
\* chunk id n that only the chunk set the call builds for it holds
OldNewPairs(local) ==
    UNION { LET old == { c \in local.pre_ids : c[1] = cf.file_path }
                new == ChunkIdsOf(build_chunks(cf.file_path, cf.text, cf.file_hash))
            IN { {o, n} : o \in old \ new, n \in new \ old }
            : cf \in SetOfSeq(local.changed) }

\* known_hashes = get_file_hashes; the loop that reads and hashes every walked
\* file (a file removed since the walk raises OSError and is skipped, after
\* its path was added to current_paths); deleted_files
IdxScan(t) ==
    /\ At(t, "scan")
    /\ LET known == get_file_hashes(files)
           current == th[t].walk
           IsChanged(f) ==
               /\ f \in th[t].walk
               /\ fs[f] # Absent
               /\ \/ th[t].rebuild
                  \/ [file_path |-> f, content_hash |-> sha256_text(fs[f])] \notin known
           IsDeleted(f) == f \in { r.file_path : r \in known } \ current
           chg == SelectSeq(FileOrder, IsChanged)
           del == SelectSeq(FileOrder, IsDeleted)
           changed == [k \in 1..Len(chg) |->
                          [file_path |-> chg[k], text |-> fs[chg[k]],
                           file_hash |-> sha256_text(fs[chg[k]])]]
           skipped == { f \in th[t].walk : fs[f] # Absent /\ ~IsChanged(f) }
           mine == [th[t] EXCEPT !.files_deleted = Len(del),
                                 !.changed = changed, !.deleted = del, !.i = 1,
                                 !.skipped = skipped,
                                 !.pc = IF del # <<>> THEN "del_vec"
                                        ELSE AfterDeletions(changed)]
       IN th' = [u \in Threads |->
                   IF u = t THEN mine
                   ELSE IF th[u].pc = "q_join"
                        THEN [th[u] EXCEPT !.old_new = @ \cup OldNewPairs(mine)]
                        ELSE th[u]]
    /\ UNCHANGED <<unit_vars, env_vars, store_vars, daemon_vars, indexed_clean>>

\* vector_store.delete_file_chunks(repo_key, relative_path)
IdxDeleteFileVec(t) ==
    /\ At(t, "del_vec")
    /\ collection' = delete_file_chunks(collection, th[t].deleted[th[t].i])
    /\ Set(t, [th[t] EXCEPT !.pc = "del_meta"])
    /\ UNCHANGED <<unit_vars, env_vars, files, chunks, repo_meta, embeddings, daemon_vars, indexed_clean>>

\* metadata_store.delete_chunks_by_file(repo_key, relative_path)
IdxDeleteFileMeta(t) ==
    /\ At(t, "del_meta")
    /\ chunks' = delete_chunks_by_file(chunks, th[t].deleted[th[t].i])
    /\ Set(t, [th[t] EXCEPT !.i = IF @ < Len(th[t].deleted) THEN @ + 1 ELSE 1,
                            !.pc = IF th[t].i < Len(th[t].deleted)
                                   THEN "del_vec" ELSE "del_files"])
    /\ UNCHANGED <<unit_vars, env_vars, files, repo_meta, embeddings, collection, daemon_vars, indexed_clean>>

\* metadata_store.delete_files(repo_key, deleted_files)
IdxDeleteFiles(t) ==
    /\ At(t, "del_files")
    /\ files' = delete_files(files, SetOfSeq(th[t].deleted))
    /\ Set(t, [th[t] EXCEPT !.deleted = <<>>, !.pc = AfterDeletions(th[t].changed)])
    /\ UNCHANGED <<unit_vars, env_vars, chunks, repo_meta, embeddings, collection, daemon_vars, indexed_clean>>

\* old_chunk_ids = get_chunk_ids_for_file; parse_symbols and build_chunks are
\* pure and are evaluated here
IdxGetOld(t) ==
    /\ At(t, "get_old")
    /\ LET cf == th[t].changed[th[t].i]
           old == get_chunk_ids_for_file(chunks, cf.file_path)
           new == build_chunks(cf.file_path, cf.text, cf.file_hash)
       IN Set(t, [th[t] EXCEPT !.old_chunk_ids = old, !.new_chunks = new,
                               !.pc = IF old # {} THEN "del_old_vec"
                                      ELSE AfterOldRemoved(new)])
    /\ UNCHANGED <<unit_vars, env_vars, store_vars, daemon_vars, indexed_clean>>

\* vector_store.delete_chunk_ids(repo_key, old_chunk_ids)
IdxDeleteOldVec(t) ==
    /\ At(t, "del_old_vec")
    /\ collection' = delete_chunk_ids(collection, th[t].old_chunk_ids)
    /\ Set(t, [th[t] EXCEPT !.pc = "del_old_meta"])
    /\ UNCHANGED <<unit_vars, env_vars, files, chunks, repo_meta, embeddings, daemon_vars, indexed_clean>>

\* metadata_store.delete_chunks_by_ids(old_chunk_ids)
IdxDeleteOldMeta(t) ==
    /\ At(t, "del_old_meta")
    /\ chunks' = delete_chunks_by_ids(chunks, th[t].old_chunk_ids)
    /\ Set(t, [th[t] EXCEPT !.pc = AfterOldRemoved(th[t].new_chunks)])
    /\ UNCHANGED <<unit_vars, env_vars, files, repo_meta, embeddings, collection, daemon_vars, indexed_clean>>

\* vectors = embedding_service.embed_documents(embedding_input).vectors;
\* a ValueError of np.stack leaves Indexer.index and releases the lock
IdxEmbed(t) ==
    /\ At(t, "embed")
    /\ LET keys == { EmbeddingKey(c) : c \in th[t].new_chunks }
           r == embed_texts(embeddings, keys, modelDim)
       IN /\ embeddings' = r.embeddings
          /\ IF r.ok
             THEN Set(t, [th[t] EXCEPT !.vec_dim = r.dim, !.pc = "upsert_vec"])
             ELSE Set(t, [th[t] EXCEPT !.result = "error", !.code = "ValueError",
                                      !.pc = "done", !.i = 1,
                                      !.old_chunk_ids = {}, !.new_chunks = {}])
          /\ indexed_clean' = (indexed_clean /\ r.ok)
    /\ UNCHANGED <<unit_vars, env_vars, files, chunks, repo_meta, collection, daemon_vars>>

\* vector_store.upsert_chunks(repo_key, chunks, vectors)
IdxUpsertVec(t) ==
    /\ At(t, "upsert_vec")
    /\ collection' = vec_upsert_chunks(collection, th[t].new_chunks, th[t].vec_dim)
    /\ Set(t, [th[t] EXCEPT !.pc = "upsert_meta"])
    /\ UNCHANGED <<unit_vars, env_vars, files, chunks, repo_meta, embeddings, daemon_vars, indexed_clean>>

\* metadata_store.upsert_chunks(chunks); chunks_indexed += len(chunks)
IdxUpsertMeta(t) ==
    /\ At(t, "upsert_meta")
    /\ chunks' = meta_upsert_chunks(chunks, th[t].new_chunks)
    /\ Set(t, [th[t] EXCEPT !.chunks_indexed = @ + Cardinality(th[t].new_chunks),
                            !.pc = "upsert_hash"])
    /\ UNCHANGED <<unit_vars, env_vars, files, repo_meta, embeddings, collection, daemon_vars, indexed_clean>>

\* metadata_store.upsert_file_hash(...); files_indexed += 1; next changed file
IdxUpsertHash(t) ==
    /\ At(t, "upsert_hash")
    /\ LET cf == th[t].changed[th[t].i]
       IN files' = upsert_file_hash(files, cf.file_path, cf.file_hash, clock)
    /\ Set(t, [th[t] EXCEPT !.files_indexed = @ + 1,
                            !.old_chunk_ids = {}, !.new_chunks = {}, !.vec_dim = 0,
                            !.i = IF @ < Len(th[t].changed) THEN @ + 1 ELSE @,
                            !.pc = IF th[t].i < Len(th[t].changed)
                                   THEN "get_old" ELSE "stamp"])
    /\ UNCHANGED <<unit_vars, env_vars, chunks, repo_meta, embeddings, collection, daemon_vars, indexed_clean>>

\* metadata_store.set_repo_last_indexed(repo_key); return IndexStats(...)
IdxStamp(t) ==
    /\ At(t, "stamp")
    /\ repo_meta' = set_repo_last_indexed(clock)
    /\ Set(t, [th[t] EXCEPT !.i = 1, !.result = "ok", !.pc = "done"])
    /\ indexed_clean' = th[t].clean
    /\ UNCHANGED <<unit_vars, env_vars, files, chunks, embeddings, collection, daemon_vars>>

(***************************************************************************)
(* QueryEngine.query                                                       *)
(***************************************************************************)
\* what the external models of one query do: the rewriting LLM, the local
\* cross-encoder and the Gemini reranker ("disabled": the daemon runs without)
RewriteOutcomes == {"disabled", "changed", "same", "fail"}
LocalOutcomes == {"disabled", "raise", "scores_keep", "scores_promote", "scores_short"}
LLMOutcomes == {"disabled", "confident", "select", "fail"}
TopKs == {1, 8}

\* HybridScorer.score times the heuristics multiplier: a fixed function of the
\* query and the chunk
Score(row) ==
    LET fi == CHOOSE k \in 1..Len(FileOrder) : FileOrder[k] = row.file_path
    IN 100 * fi + 10 * row.symbol + row.chunk_id[3]

\* matches.sort(key=(score, ...), reverse=True)
RECURSIVE Ranked(_)
Ranked(rows) ==
    IF rows = {} THEN <<>>
    ELSE LET m == CHOOSE x \in rows : \A y \in rows : Score(x) >= Score(y)
         IN <<m>> \o Ranked(rows \ {m})

\* LocalReranker.rerank over matches[:10]: the try covers _predict_scores only;
\* zip(target, scores, strict=True) raises ValueError on a score list of
\* another length
rerank(matches, outcome) ==
    IF outcome = "disabled" \/ Len(matches) <= 1
    THEN [status |-> "ok", matches |-> matches]
    ELSE CASE outcome = "scores_promote" ->
                [status |-> "ok",
                 matches |-> <<matches[2], matches[1]>> \o SubSeq(matches, 3, Len(matches))]
           [] outcome = "scores_short" -> [status |-> "error", matches |-> matches]
           [] OTHER -> [status |-> "ok", matches |-> matches]

TopSelection(matches, reason) ==
    [file |-> matches[1].file_path, line |-> matches[1].start_line,
     source |-> "vector", reason |-> reason]

\* the selection step with a fallback that reports the model as used
decide_UsedOnFallback(matches, outcome, pick) ==
    CASE outcome = "disabled" ->
           [selection |-> TopSelection(matches,
                <<"Gemini reranker is disabled", "returning highest scoring semantic result">>),
            used_gemini |-> FALSE]
      [] outcome = "confident" ->
           [selection |-> TopSelection(matches,
                <<"High vector confidence", "returning top semantic match">>),
            used_gemini |-> FALSE]
      [] outcome = "select" ->
           [selection |-> [file |-> matches[pick].file_path,
                           line |-> matches[pick].start_line,
                           source |-> "gemini", reason |-> <<"reason of the model">>],
            used_gemini |-> TRUE]
      [] OTHER ->
           [selection |-> TopSelection(matches,
                <<"Gemini", "rerank failed", "falling back to top vector candidate">>),
            used_gemini |-> TRUE]

\* the selection step of QueryEngine.query with GeminiReranker.decide
decide(matches, outcome, pick) ==
    CASE outcome = "disabled" ->
           [selection |-> TopSelection(matches,
                <<"Gemini reranker is disabled", "returning highest scoring semantic result">>),
            used_gemini |-> FALSE]
      [] outcome = "confident" ->
           [selection |-> TopSelection(matches,
                <<"High vector confidence", "returning top semantic match">>),
            used_gemini |-> FALSE]
      [] outcome = "select" ->
           [selection |-> [file |-> matches[pick].file_path,
                           line |-> matches[pick].start_line,
                           source |-> "gemini", reason |-> <<"reason of the model">>],
            used_gemini |-> TRUE]
      [] OTHER ->
           [selection |-> TopSelection(matches,
                <<"Gemini", "rerank failed", "falling back to top vector candidate">>),
            used_gemini |-> FALSE]

\* the index calls that are past their scan and have not written their stamp
ReindexInProgress ==
    { u \in Threads : th[u].op = "index"
                      /\ th[u].pc \notin {"services", "lookup", "create", "lock", "walk",
                                          "clear", "ensure", "clear_promoted", "scan", "done"} }

\* query_rewriter.rewrite (LLMClientError is caught); embed_query
QEmbed(t, rw) ==
    /\ At(t, "q_embed")
    /\ LET r == embed_texts(embeddings, {QueryKey}, modelDim)
       IN /\ embeddings' = r.embeddings
          /\ Set(t, [th[t] EXCEPT !.vec_dim = r.dim, !.rewrite = rw,
                                  !.rewritten_query = (rw = "changed"),
                                  !.pc = "q_search"])
    /\ UNCHANGED <<unit_vars, env_vars, files, chunks, repo_meta, collection, daemon_vars, indexed_clean>>

\* hits = vector_store.search(repo_key, query_embedding, limit)
QSearch(t) ==
    /\ At(t, "q_search")
    /\ LET r == search(collection, th[t].vec_dim)
       IN IF r.status = "error"
          THEN Set(t, [th[t] EXCEPT !.result = "error", !.code = r.code,
                                   !.details = <<r.index_dim, r.model_dim>>,
                                   !.pc = "done"])
          ELSE Set(t, [th[t] EXCEPT !.hits = r.hits,
                                   !.old_new = UNION { OldNewPairs(th[u]) : u \in ReindexInProgress },
                                   !.pc = "q_join"])
    /\ UNCHANGED <<unit_vars, env_vars, store_vars, daemon_vars, indexed_clean>>

\* chunks = get_chunks_by_ids(chunk_ids); hits without a row are dropped;
\* scoring, sort, local rerank, selection, matches[:top_k]
QJoin(t, top_k, lr, g, pick) ==
    /\ At(t, "q_join")
    /\ LET rows == get_chunks_by_ids(chunks, th[t].hits)
           ranked == Ranked(rows)
           rr == rerank(ranked, lr)
           d == decide(rr.matches, g, pick)
           out == [th[t] EXCEPT !.hits = {}, !.candidates = Len(ranked),
                                !.local = lr, !.llm = g, !.pc = "done",
                                !.top_k = top_k,
                                !.stale = th[t].hits \ { r.chunk_id : r \in rows }]
       IN /\ pick <= Len(ranked) \/ pick = 1
          /\ g = "select" \/ pick = 1
          /\ IF rr.status = "error"
             THEN Set(t, [out EXCEPT !.result = "error", !.code = "ValueError"])
             ELSE IF ranked = <<>>
             THEN Set(t, [out EXCEPT !.result = "ok"])
             ELSE Set(t, [out EXCEPT !.result = "ok",
                                     !.matches = SubSeq(rr.matches, 1,
                                         IF top_k < Len(ranked) THEN top_k ELSE Len(ranked)),
                                     !.selection = d.selection,
                                     !.used_gemini = d.used_gemini])
    /\ UNCHANGED <<unit_vars, env_vars, store_vars, daemon_vars, indexed_clean>>

QueryStep(t, RW, LR, G) ==
    \/ \E rw \in RW : QEmbed(t, rw)
    \/ QSearch(t)
    \/ \E top_k \in TopKs, lr \in LR, g \in G, pick \in 1..2 : QJoin(t, top_k, lr, g, pick)

IndexStep(t) ==
    \/ IdxWalk(t) \/ IdxClear(t) \/ IdxEnsure(t) \/ IdxClearPromoted(t)
    \/ IdxScan(t) \/ IdxDeleteFileVec(t) \/ IdxDeleteFileMeta(t)
    \/ IdxDeleteFiles(t) \/ IdxGetOld(t) \/ IdxDeleteOldVec(t)
    \/ IdxDeleteOldMeta(t) \/ IdxEmbed(t) \/ IdxUpsertVec(t)
    \/ IdxUpsertMeta(t) \/ IdxUpsertHash(t) \/ IdxStamp(t)

DaemonStep(t) ==
    \/ \E b \in BOOLEAN : Call(t, "index", b)
    \/ Call(t, "status", FALSE)
    \/ GuardAcquire(t) \/ ServicesLookup(t) \/ ServicesCreate(t)
    \/ LockAcquire(t) \/ Status(t) \/ Finish(t)

\* indexing, one client at a time: every index or status request is served to
\* its end before the next
Next ==
    \/ \E f \in Files, c \in {Absent} \cup Contents : EditFile(f, c)
    \/ Tick
    \/ \E d \in Dims : Restart(d)
    \/ \E t \in {"t1"} :
          \/ DaemonStep(t)
          \/ IndexStep(t)

Spec == Init /\ [][Next]_vars

\* indexing and querying, one client at a time, over a tree of one file; the
\* daemon runs with every optional stage of the query engine; time stamps play
\* no part and the clock stands still
NextQuery ==
    \/ \E c \in {Absent} \cup Contents : EditFile("a.py", c)
    \/ \E d \in Dims : Restart(d)
    \/ \E t \in {"t1"} :
          \/ DaemonStep(t)
          \/ Call(t, "query", FALSE)
          \/ IndexStep(t)
          \/ QueryStep(t, RewriteOutcomes, LocalOutcomes, LLMOutcomes)

SpecQuery == Init /\ [][NextQuery]_vars

\* an index client and a query client at the same time: thread t1 serves index
\* requests while thread t2 serves queries, over a tree of one file; the
\* daemon runs with the default settings (no rewrite, no rerankers) and keeps
\* its model; time stamps play no part and the clock stands still
NextConc ==
    \/ \E c \in {Absent} \cup Contents : EditFile("a.py", c)
    \/ \E b \in BOOLEAN : Call("t1", "index", b)
    \/ Call("t2", "query", FALSE)
    \/ \E t \in Threads :
          \/ GuardAcquire(t) \/ ServicesLookup(t) \/ ServicesCreate(t)
          \/ LockAcquire(t) \/ Finish(t)
          \/ IndexStep(t)
          \/ QueryStep(t, {"disabled"}, {"disabled"}, {"disabled"})

SpecConc == Init /\ [][NextConc]_vars

\* any clients at the same time: both worker threads serve index, query and
\* status requests; one file comes and goes
NextLock ==
    \/ \E c \in {Absent} \cup Contents : EditFile("a.py", c)
    \/ \E t \in Threads :
          \/ DaemonStep(t)
          \/ Call(t, "query", FALSE)
          \/ IndexStep(t)
          \/ QueryStep(t, {"disabled"}, {"disabled"}, {"disabled"})

SpecLock == Init /\ [][NextLock]_vars

(***************************************************************************)
(* GeminiReranker                                                          *)
(***************************************************************************)
\* the match lists decide is called with; scores are kept in hundredths.
\* decide reads the vector_score of the first match only, the others carry the
\* lowest one; a list is one match longer than max_candidates at most
RrMatchLists ==
    LET Match(f, r, sc, vs) ==
            [file_path |-> f, start_line |-> r[1], end_line |-> r[2], score |-> sc,
             vector_score |-> vs]
        Ranges == {<<1, 2>>, <<3, 4>>}
        Top == { Match(f, r, sc, vs) : f \in Files, r \in Ranges, sc \in {1, 2},
                                       vs \in {40, 85, 93} }
        Other == { Match(f, r, sc, 40) : f \in Files, r \in Ranges, sc \in {1, 2} }
    IN {<<>>} \cup
       { <<top>> \o tail : top \in Top,
                           tail \in UNION { [1..k -> Other] : k \in 0..max_candidates } }

\* a JSON value of the model's answer: its type, and its value as a string or
\* as a number ("missing": the object has no such key)
JsonStr(x) == [t |-> "str", s |-> x, n |-> 0]
JsonInt(x) == [t |-> "int", s |-> "", n |-> x]
JsonTrue == [t |-> "bool", s |-> "", n |-> 1]
JsonMissing == [t |-> "missing", s |-> "", n |-> 0]

\* what client.complete_json does: it raises GeminiTimeoutError or
\* GeminiClientError (request failed, no JSON object in the text), or returns
\* the parsed object
RrResponses ==
    { [kind |-> "json", file |-> JsonStr("a.py"), line |-> l, reason |-> JsonStr("best")] :
        l \in {JsonInt(0), JsonInt(3), JsonInt(5), JsonTrue, JsonStr("3"), JsonMissing} }
    \cup
    { [kind |-> "json", file |-> f, line |-> JsonInt(3), reason |-> JsonStr("best")] :
        f \in {JsonStr("c.py"), JsonStr(""), JsonInt(7), JsonMissing} }
    \cup
    { [kind |-> "json", file |-> JsonStr("a.py"), line |-> JsonInt(3), reason |-> r] :
        r \in {JsonStr(""), JsonInt(7), JsonMissing} }
    \cup
    { [kind |-> k, file |-> JsonMissing, line |-> JsonMissing, reason |-> JsonMissing] :
        k \in {"timeout", "error", "no_json"} }

\* isinstance(x, int): bool is a subclass of int, True counts as 1
isinstance_int(x) == x.t \in {"int", "bool"}

\* best.vector_score >= self.threshold, a strict comparison instead
HighConfidence_Strict(best) == best.vector_score > threshold

\* best.vector_score >= self.threshold
HighConfidence(best) == best.vector_score >= threshold

\* candidates = matches[: self.max_candidates]
Candidates(matches) ==
    SubSeq(matches, 1, IF Len(matches) < max_candidates THEN Len(matches) ELSE max_candidates)

\* GeminiReranker._selection_from_payload; ok = FALSE stands for the KeyError
\* or ValueError it raises
selection_from_payload(payload, candidates) ==
    LET file == payload.file
        line == payload.line
        reason == payload.reason
        Raise == [ok |-> FALSE, selection |-> NoSelection]
        inside == { k \in 1..Len(candidates) :
                      /\ candidates[k].file_path = file.s
                      /\ candidates[k].start_line <= line.n
                      /\ line.n <= candidates[k].end_line }
        same_file == { k \in 1..Len(candidates) : candidates[k].file_path = file.s }
        first == CHOOSE k \in inside : \A j \in inside : k <= j
        \* max(same_file_candidates, key=score): the first of the highest
        best == CHOOSE k \in same_file :
                    \A j \in same_file :
                        \/ candidates[k].score > candidates[j].score
                        \/ (candidates[k].score = candidates[j].score /\ k <= j)
    IN IF "missing" \in {file.t, line.t, reason.t} THEN Raise
       ELSE IF file.t # "str" \/ file.s = "" THEN Raise
       ELSE IF ~isinstance_int(line) \/ line.n <= 0 THEN Raise
       ELSE IF reason.t # "str" \/ reason.s = "" THEN Raise
       ELSE IF inside # {}
       THEN [ok |-> TRUE,
             selection |-> [file |-> candidates[first].file_path, line |-> line.n,
                            source |-> "gemini", reason |-> <<reason.s>>]]
       ELSE IF same_file # {}
       THEN [ok |-> TRUE,
             selection |-> [file |-> candidates[best].file_path,
                            line |-> candidates[best].start_line,
                            source |-> "gemini", reason |-> <<reason.s>>]]
       ELSE Raise

\* decide(query, matches) is called; enable_rewrite is the reranker's setting
RrCall ==
    /\ reranker.pc = "idle"
    /\ \E matches \in RrMatchLists, enable_rewrite \in BOOLEAN :
          reranker' = [RrIdle EXCEPT !.pc = "threshold", !.matches = matches,
                                     !.enable_rewrite = enable_rewrite]
    /\ UNCHANGED <<system_vars, ranking, gemini, rewriter, pool, embedder, mstore, call>>

\* no matches: None; a confident top match: the top match, no model call
RrThreshold ==
    /\ reranker.pc = "threshold"
    /\ IF reranker.matches = <<>>
       THEN reranker' = [reranker EXCEPT !.pc = "done"]
       ELSE IF HighConfidence(reranker.matches[1])
       THEN reranker' = [reranker EXCEPT
                !.pc = "done", !.decided = TRUE,
                !.selection = TopSelection(reranker.matches,
                    <<"High vector confidence", "returning top semantic match">>)]
       ELSE reranker' = [reranker EXCEPT
                !.pc = IF reranker.enable_rewrite THEN "rewrite" ELSE "rerank"]
    /\ UNCHANGED <<system_vars, ranking, gemini, rewriter, pool, embedder, mstore, call>>

\* client.rewrite_query; a GeminiClientError is logged and dropped
RrRewrite(ok) ==
    /\ reranker.pc = "rewrite"
    /\ reranker' = [reranker EXCEPT !.pc = "rerank", !.calls = @ + 1,
                                    !.rewritten_query = ok]
    /\ UNCHANGED <<system_vars, ranking, gemini, rewriter, pool, embedder, mstore, call>>

\* client.complete_json and _selection_from_payload, under the try of decide
RrRerank ==
    /\ reranker.pc = "rerank"
    /\ \E resp \in RrResponses :
       LET r == selection_from_payload(resp, Candidates(reranker.matches))
       IN IF resp.kind = "json" /\ r.ok
          THEN reranker' = [reranker EXCEPT
                   !.pc = "done", !.calls = @ + 1, !.payload = <<resp>>,
                   !.decided = TRUE, !.selection = r.selection, !.used_gemini = TRUE]
          ELSE reranker' = [reranker EXCEPT
                   !.pc = "done", !.calls = @ + 1, !.payload = <<resp>>,
                   !.decided = TRUE,
                   !.selection = TopSelection(reranker.matches,
                       <<"Gemini", "rerank failed", "falling back to top vector candidate">>)]
    /\ UNCHANGED <<system_vars, ranking, gemini, rewriter, pool, embedder, mstore, call>>

\* the caller takes the decision
RrReturn ==
    /\ reranker.pc = "done"
    /\ reranker' = RrIdle
    /\ UNCHANGED <<system_vars, ranking, gemini, rewriter, pool, embedder, mstore, call>>

\* the reranker on its own, called with any list of matches and any answer of
\* the model
NextRerank ==
    \/ RrCall
    \/ RrThreshold
    \/ \E ok \in BOOLEAN : RrRewrite(ok)
    \/ RrRerank
    \/ RrReturn

SpecRerank == Init /\ [][NextRerank]_vars

(***************************************************************************)
(* Ranking: sort, LocalReranker, truncation                                *)
(***************************************************************************)
\* scores are kept in thousandths: the hybrid score times the heuristics
\* multiplier of a candidate, and the sigmoid of its cross-encoder score
HybridScores == {400, 800}

Min2(a, b) == IF a < b THEN a ELSE b

\* list.sort(key=score, reverse=True): stable, equal scores keep their order
RECURSIVE InsertDesc(_, _)
InsertDesc(sorted, m) ==
    IF sorted = <<>> THEN <<m>>
    ELSE IF Head(sorted).score >= m.score
    THEN <<Head(sorted)>> \o InsertDesc(Tail(sorted), m)
    ELSE <<m>> \o sorted

RECURSIVE SortDesc(_)
SortDesc(seq) ==
    IF seq = <<>> THEN <<>>
    ELSE InsertDesc(SortDesc(SubSeq(seq, 1, Len(seq) - 1)), seq[Len(seq)])

\* what the cross-encoder answers for the target matches: every candidate
\* scored low, every candidate scored high, or one candidate scored high
SigmoidLists(n) ==
    { [k \in 1..n |-> 10], [k \in 1..n |-> 990] }
    \cup { [k \in 1..n |-> IF k = j THEN 990 ELSE 10] : j \in 1..n }

\* LocalReranker.rerank once the scores are in: the target matches get
\* 0.7 * score + 0.3 * sigmoid(local_score) and are sorted, the remainder
\* follows as it was
local_rerank(matches, sig) ==
    LET n == Min2(Len(matches), local_reranker_top_k)
        target == SubSeq(matches, 1, n)
        remainder == SubSeq(matches, n + 1, Len(matches))
        combined == [k \in 1..n |->
                        [target[k] EXCEPT !.score = (7 * target[k].score + 3 * sig[k]) \div 10]]
    IN SortDesc(combined) \o remainder

\* a query has its candidate matches, in the order of the vector hits
RkQuery ==
    /\ ranking.pc = "idle"
    /\ \E n \in 1..MaxMatches :
          \E scores \in [1..n -> HybridScores] :
             ranking' = [RkIdle EXCEPT !.pc = "sort",
                            !.matches = [k \in 1..n |-> [id |-> k, score |-> scores[k]]]]
    /\ UNCHANGED <<system_vars, reranker, gemini, rewriter, pool, embedder, mstore, call>>

\* matches.sort(..., reverse=True)
RkSort ==
    /\ ranking.pc = "sort"
    /\ ranking' = [ranking EXCEPT !.pc = "local", !.matches = SortDesc(ranking.matches)]
    /\ UNCHANGED <<system_vars, reranker, gemini, rewriter, pool, embedder, mstore, call>>

\* local_reranker.rerank(query, matches[:10]) and reranked.extend(matches[10:]);
\* a disabled reranker, a single match and a failed prediction return the
\* matches as they are, a score list of another length raises ValueError
RkLocal ==
    /\ ranking.pc = "local"
    /\ LET head == SubSeq(ranking.matches, 1, Min2(Len(ranking.matches), RerankWindow))
           rest == SubSeq(ranking.matches, RerankWindow + 1, Len(ranking.matches))
       IN \/ \E o \in {"disabled", "raise"} :
                ranking' = [ranking EXCEPT !.pc = "truncate", !.local = o]
          \/ /\ Len(head) > 1
             /\ \/ ranking' = [ranking EXCEPT !.pc = "done", !.local = "scores_short",
                                              !.result = "error", !.matches = <<>>]
                \/ \E sig \in SigmoidLists(Min2(Len(head), local_reranker_top_k)) :
                      ranking' = [ranking EXCEPT !.pc = "truncate", !.local = "scores",
                                        !.matches = local_rerank(head, sig) \o rest]
    /\ UNCHANGED <<system_vars, reranker, gemini, rewriter, pool, embedder, mstore, call>>

\* matches[:top_k]
RkTruncate ==
    /\ ranking.pc = "truncate"
    /\ \E top_k \in {1, 8, 50} :
          ranking' = [ranking EXCEPT !.pc = "done", !.result = "ok",
                         !.matches = SubSeq(ranking.matches, 1,
                                            Min2(top_k, Len(ranking.matches)))]
    /\ UNCHANGED <<system_vars, reranker, gemini, rewriter, pool, embedder, mstore, call>>

RkReturn ==
    /\ ranking.pc = "done"
    /\ ranking' = RkIdle
    /\ UNCHANGED <<system_vars, reranker, gemini, rewriter, pool, embedder, mstore, call>>

\* the ranking steps on their own, over any scores of the candidates
NextRank == RkQuery \/ RkSort \/ RkLocal \/ RkTruncate \/ RkReturn

SpecRank == Init /\ [][NextRank]_vars

(***************************************************************************)
(* GeminiClient                                                            *)
(***************************************************************************)
\* what the model answers: text holding a JSON object, text holding none, a
\* pair of quotes with nothing between them; or the call times out, raises,
\* answers blank text
CallOutcomes == {"timeout", "raise", "blank", "{json}", "text", "''"}
\* measured latency of an invocation that called the model, in milliseconds
CallLatencies == {0, 42}

\* model = model_name or self.default_model ("": None)
ResolveModel(model_name) == IF model_name = "" THEN "m1" ELSE model_name

\* functools.lru_cache, least recently used first
lru_has(cache, key) == \E k \in 1..Len(cache) : cache[k].key = key
lru_value(cache, key) == (CHOOSE k \in 1..Len(cache) : cache[k].key = key)
lru_touch(cache, key) ==
    LET k == lru_value(cache, key)
    IN SubSeq(cache, 1, k - 1) \o SubSeq(cache, k + 1, Len(cache)) \o <<cache[k]>>

\* a cache that stores nothing
lru_put_Drop(cache, key, value) == cache

lru_put(cache, key, value) ==
    LET c == Append(cache, [key |-> key, value |-> value])
    IN IF Len(c) > cache_size THEN Tail(c) ELSE c

\* GeminiClient._generate_uncached
gemini_generate_uncached(outcome) ==
    CASE outcome = "timeout" -> [ok |-> FALSE, raw |-> "", error |-> "GeminiTimeoutError"]
      [] outcome \in {"raise", "blank"} ->
             [ok |-> FALSE, raw |-> "", error |-> "GeminiClientError"]
      [] OTHER -> [ok |-> TRUE, raw |-> outcome, error |-> ""]

\* self._cached_completion(model, prompt): an exception is not cached
gemini_cached_completion(cache, key, outcome) ==
    IF lru_has(cache, key)
    THEN [cache |-> lru_touch(cache, key), ok |-> TRUE,
          raw |-> cache[lru_value(cache, key)].value, error |-> "", called |-> FALSE]
    ELSE LET r == gemini_generate_uncached(outcome)
         IN [cache |-> IF r.ok THEN lru_put(cache, key, r.raw) ELSE cache,
             ok |-> r.ok, raw |-> r.raw, error |-> r.error, called |-> TRUE]

\* GeminiClient._parse_json_object
parse_json_object(raw) ==
    IF raw = "{json}" THEN [ok |-> TRUE, value |-> "payload", error |-> ""]
    ELSE [ok |-> FALSE, value |-> "", error |-> "GeminiClientError"]

\* GeminiClient._parse_rewrite_text: the first line of the text, unquoted
parse_rewrite_text(raw) == IF raw = "''" THEN "" ELSE raw

\* GeminiClient.rewrite_query, after the completion
rewrite_query_result(raw) ==
    LET rewritten == parse_rewrite_text(raw)
    IN IF rewritten = "" THEN [ok |-> FALSE, value |-> "", error |-> "GeminiClientError"]
       ELSE [ok |-> TRUE, value |-> rewritten, error |-> ""]

\* complete_json(prompt, model_name) or rewrite_query(prompt, model_name)
GeminiInvoke ==
    \E op \in {"complete_json", "rewrite_query"}, model_name \in {"", "m1", "m2"},
       prompt \in {"p1", "p2"}, outcome \in CallOutcomes, ms \in CallLatencies :
       LET key == <<ResolveModel(model_name), prompt>>
           c == gemini_cached_completion(gemini.cache, key, outcome)
           parsed == IF op = "complete_json" THEN parse_json_object(c.raw)
                     ELSE rewrite_query_result(c.raw)
           ok == c.ok /\ parsed.ok
       IN \* a hit calls no model: its outcome and its duration do not exist
          /\ ~c.called => (outcome = "timeout" /\ ms = 0)
          /\ gemini' =
               [cache |-> c.cache,
                cur |-> [op |-> op, model_name |-> ResolveModel(model_name), prompt |-> prompt,
                         status |-> IF ok THEN "ok" ELSE "error",
                         value |-> IF ok THEN parsed.value
                                   ELSE IF c.ok THEN parsed.error ELSE c.error,
                         called |-> c.called,
                         latency |-> IF ~ok THEN NoLatency ELSE IF c.called THEN ms ELSE 0,
                         repeat |-> /\ gemini.cur.op = op
                                    /\ gemini.cur.model_name = ResolveModel(model_name)
                                    /\ gemini.cur.prompt = prompt,
                         stored |-> c.ok]]
          /\ UNCHANGED <<system_vars, reranker, ranking, rewriter, pool, embedder, mstore, call>>

\* the daemon is started again: a new client with an empty cache
GeminiRestart ==
    /\ gemini # GeminiInit
    /\ gemini' = GeminiInit
    /\ UNCHANGED <<system_vars, reranker, ranking, rewriter, pool, embedder, mstore, call>>

NextGemini == GeminiInvoke \/ GeminiRestart

SpecGemini == Init /\ [][NextGemini]_vars

(***************************************************************************)
(* QueryRewriter over LLMTextClient                                        *)
(***************************************************************************)
\* query.strip(), of the queries "q1", " q1", "q2", " "
Strip(query) == CASE query = " q1" -> "q1" [] query = " " -> "" [] OTHER -> query
\* what the model answers: a rewrite, the query itself, blank text, a pair of
\* quotes with nothing between them
\* or the call times out or raises
TextOutcomes == {"timeout", "raise", "ans", "q1", "  ", "''"}

\* LLMTextClient._normalize_text
normalize_text(raw) == IF raw = "  " THEN "" ELSE raw
\* QueryRewriter._clean_rewrite
clean_rewrite(text) == IF text \in {"  ", "''"} THEN "" ELSE text

\* LLMTextClient._generate_uncached: blank output is output
text_generate_uncached(outcome) ==
    CASE outcome = "timeout" -> [ok |-> FALSE, raw |-> "", error |-> "LLMClientTimeoutError"]
      [] outcome = "raise" -> [ok |-> FALSE, raw |-> "", error |-> "LLMClientError"]
      [] OTHER -> [ok |-> TRUE, raw |-> outcome, error |-> ""]

\* LLMTextClient.complete_text
complete_text(cache, model_name, prompt, outcome, ms) ==
    LET key == <<model_name, prompt>>
        hit == lru_has(cache, key)
        r == IF hit THEN [ok |-> TRUE, raw |-> cache[lru_value(cache, key)].value, error |-> ""]
             ELSE text_generate_uncached(outcome)
        text == normalize_text(r.raw)
    IN [cache |-> IF hit THEN lru_touch(cache, key)
                  ELSE IF r.ok THEN lru_put(cache, key, r.raw) ELSE cache,
        ok |-> r.ok /\ text # "",
        text |-> text,
        latency |-> IF hit THEN 0 ELSE ms,
        error |-> IF r.ok THEN "LLMClientError" ELSE r.error,
        model_calls |-> IF hit THEN 0 ELSE 1]

\* QueryRewriter._rewrite_uncached
rewrite_uncached(completion_cache, query, outcome, ms) ==
    LET prompt == <<"_REWRITE_PROMPT", query>>
        c == complete_text(completion_cache, "m", prompt, outcome, ms)
        cleaned == clean_rewrite(c.text)
    IN [completion_cache |-> c.cache, ok |-> c.ok,
        value |-> [rewritten |-> IF cleaned = "" THEN query ELSE cleaned, latency |-> c.latency],
        client_calls |-> 1, model_calls |-> c.model_calls]

\* a rewriter that keeps no rewrite
cached_rewrite_Uncached(rewrite_cache, completion_cache, query, outcome, ms) ==
    LET r == rewrite_uncached(completion_cache, query, outcome, ms)
    IN [rewrite_cache |-> rewrite_cache, completion_cache |-> r.completion_cache,
        ok |-> r.ok, value |-> r.value,
        client_calls |-> r.client_calls, model_calls |-> r.model_calls]

\* self._cached_rewrite(normalized): an exception is not cached
cached_rewrite(rewrite_cache, completion_cache, query, outcome, ms) ==
    IF lru_has(rewrite_cache, query)
    THEN [rewrite_cache |-> lru_touch(rewrite_cache, query),
          completion_cache |-> completion_cache, ok |-> TRUE,
          value |-> rewrite_cache[lru_value(rewrite_cache, query)].value,
          client_calls |-> 0, model_calls |-> 0]
    ELSE LET r == rewrite_uncached(completion_cache, query, outcome, ms)
         IN [rewrite_cache |-> IF r.ok THEN lru_put(rewrite_cache, query, r.value)
                               ELSE rewrite_cache,
             completion_cache |-> r.completion_cache, ok |-> r.ok, value |-> r.value,
             client_calls |-> r.client_calls, model_calls |-> r.model_calls]

\* return query, False, None
rewrite_fallback(query) == [query |-> query, changed |-> FALSE, latency |-> NoLatency]

\* QueryRewriter.rewrite(query)
RwRewrite ==
    \E query \in {"q1", " q1", "q2", " "}, outcome \in TextOutcomes, ms \in CallLatencies :
       LET normalized == Strip(query)
           skip == ~rewriter.enabled \/ ~rewriter.has_client \/ normalized = ""
           r == cached_rewrite(rewriter.rewrite_cache, rewriter.completion_cache,
                               normalized, outcome, ms)
       IN \* without a model call its outcome and its duration do not exist
          /\ (skip \/ r.model_calls = 0) => (outcome = "timeout" /\ ms = 0)
          /\ rewriter' =
               [rewriter EXCEPT
                  !.rewrite_cache = IF skip THEN @ ELSE r.rewrite_cache,
                  !.completion_cache = IF skip THEN @ ELSE r.completion_cache,
                  !.cur = [query |-> query,
                           out |-> IF skip \/ ~r.ok \/ r.value.rewritten = ""
                                   THEN rewrite_fallback(query)
                                   ELSE [query |-> r.value.rewritten,
                                         changed |-> r.value.rewritten # query,
                                         latency |-> r.value.latency],
                           client_calls |-> IF skip THEN 0 ELSE r.client_calls,
                           model_calls |-> IF skip THEN 0 ELSE r.model_calls,
                           failed |-> ~skip /\ ~r.ok,
                           repeat |-> rewriter.cur.query = query]]
          /\ UNCHANGED <<system_vars, reranker, ranking, gemini, pool, embedder, mstore, call>>

\* the daemon is started again: a new rewriter and a new client
RwRestart ==
    \E enabled \in BOOLEAN, has_client \in BOOLEAN :
       /\ rewriter # RewriterInit(enabled, has_client)
       /\ rewriter' = RewriterInit(enabled, has_client)
       /\ UNCHANGED <<system_vars, reranker, ranking, gemini, pool, embedder, mstore, call>>

NextRewrite == RwRewrite \/ RwRestart

SpecRewrite == Init /\ [][NextRewrite]_vars

(***************************************************************************)
(* Model calls under a timeout                                             *)
(***************************************************************************)
\* what a failing model call raises
ExceptionTypes == {"RuntimeError", "ValueError"}

\* the error of _generate_uncached and of _predict_scores: the timeout error,
\* or what becomes of the exception exc of the model call
call_error(client, timed_out, exc) ==
    CASE client = "GeminiClient" ->
             IF timed_out THEN "GeminiTimeoutError" ELSE "GeminiClientError"
      [] client = "LLMTextClient" ->
             IF timed_out THEN "LLMClientTimeoutError" ELSE "LLMClientError"
      [] OTHER -> IF timed_out THEN "RuntimeError" ELSE exc

\* the errors of a client's model calls that are not timeouts
FailureErrors(client) == { call_error(client, FALSE, exc) : exc \in ExceptionTypes }

\* the running tasks, dt seconds later
Age(running, dt) ==
    LET Left(k) == running[k] - dt
        RECURSIVE Keep(_)
        Keep(k) == IF k > Len(running) THEN <<>>
                   ELSE IF Left(k) > 0 THEN <<Left(k)>> \o Keep(k + 1) ELSE Keep(k + 1)
    IN Keep(1)

\* the time until a worker of ThreadPoolExecutor(max_workers=...) is free
FreeAt(client, running) ==
    IF Len(running) < (IF client = "LocalReranker" THEN 1 ELSE 4) THEN 0
    ELSE CHOOSE r \in { running[k] : k \in 1..Len(running) } :
             \A k \in 1..Len(running) : r <= running[k]

\* executor.submit(call); future.result(timeout=self.timeout_seconds); on a
\* timeout future.cancel(), which stops only a task that has not started
ModelCall ==
    \E client \in ModelClients, duration \in 0..MaxDuration, raises \in BOOLEAN,
       exc \in ExceptionTypes :
       LET running == pool.running[client]
           start == FreeAt(client, running)
           finish == start + duration
           timed_out == finish > timeout_seconds
           waited == Min2(finish, timeout_seconds)
           cancelled == timed_out /\ start >= timeout_seconds
           left == IF cancelled THEN <<>> ELSE Age(<<finish>>, waited)
       IN /\ ~raises => exc = "RuntimeError"
          /\ pool' =
               [running |-> [c \in ModelClients |->
                               IF c = client THEN Age(running, waited) \o left
                               ELSE Age(pool.running[c], waited)],
                cur |-> [client |-> client, duration |-> duration,
                         timed_out |-> timed_out, cancelled |-> cancelled,
                         waited |-> waited,
                         error |-> IF timed_out \/ raises
                                   THEN call_error(client, timed_out, exc) ELSE ""]]
          /\ UNCHANGED <<system_vars, reranker, ranking, gemini, rewriter, embedder, mstore, call>>

\* a second passes between two calls
Elapse ==
    /\ \E c \in ModelClients : pool.running[c] # <<>>
    /\ pool' = [pool EXCEPT !.running = [c \in ModelClients |-> Age(pool.running[c], 1)]]
    /\ UNCHANGED <<system_vars, reranker, ranking, gemini, rewriter, embedder, mstore, call>>

NextCalls == ModelCall \/ Elapse

SpecCalls == Init /\ [][NextCalls]_vars

(***************************************************************************)
(* EmbeddingService.embed_texts, its two caches                            *)
(***************************************************************************)
\* EmbeddingService.hash_text, of the texts "t1" and "t2"
hash_text(text) == IF text = "t1" THEN "h1" ELSE "h2"
\* a component of a vector the model returns, and np.asarray(., float32) of it
EncodeValues == {1004, 2007}
Float32(x) == (x \div 10) * 10
\* the row of table embeddings for a vector, and the vector read back from it:
\* vector.astype(np.float32).tobytes(), np.frombuffer(., np.float32, count=dim)
ToRow(vec) == [dimension |-> 1, vector |-> <<"float32", Float32(vec)>>]
FromRow(row) == row.vector[2]

\* sequences over S of length at most n
SeqsUpTo(S, n) == UNION { [1..m -> S] : m \in 0..n }
\* the keys argument of embed_texts: omitted, or a list of keys of the caller
KeyArgs ==
    {[given |-> FALSE, list |-> <<>>]}
        \cup { [given |-> TRUE, list |-> l] : l \in SeqsUpTo({"k"}, MaxTexts) }

\* lookup_keys = keys or [self.hash_text(text) for text in texts]
lookup_keys(texts, keys) ==
    IF keys.given /\ keys.list # <<>> THEN keys.list
    ELSE [i \in 1..Len(texts) |-> hash_text(texts[i])]

\* the indexes embed_texts finds in neither cache, in order
Unresolved(memory_cache, persisted, lookup) ==
    LET RECURSIVE From(_)
        From(i) == IF i > Len(lookup) THEN <<>>
                   ELSE IF lookup[i] \in DOMAIN memory_cache \cup DOMAIN persisted
                        THEN From(i + 1) ELSE <<i>> \o From(i + 1)
    IN From(1)

\* MetadataStore.get_cached_embeddings(missing_keys)
get_cached_embeddings(persisted, missing_keys) ==
    [k \in missing_keys \cap DOMAIN persisted |-> FromRow(persisted[k])]

\* a store that writes no row
upsert_cached_embeddings_Skip(persisted, to_persist) == persisted

\* MetadataStore.upsert_cached_embeddings(to_persist)
upsert_cached_embeddings(persisted, to_persist) ==
    [k \in DOMAIN persisted \cup DOMAIN to_persist |->
        IF k \in DOMAIN to_persist THEN ToRow(to_persist[k]) ELSE persisted[k]]

\* embed_texts(texts, keys) when the model returns encoded for the unresolved
\* texts
embed_texts_cached(memory_cache, persisted, texts, keys, encoded) ==
    LET lookup == lookup_keys(texts, keys)
        missing_keys == { lookup[i] : i \in 1..Len(lookup) } \ DOMAIN memory_cache
        found == get_cached_embeddings(persisted, missing_keys)
        promoted == [k \in DOMAIN memory_cache \cup DOMAIN found |->
                        IF k \in DOMAIN memory_cache THEN memory_cache[k] ELSE found[k]]
        unresolved == Unresolved(memory_cache, persisted, lookup)
        vec(p) == Float32(encoded[p])
        Put(cache, key, value) ==
            [k \in DOMAIN cache \cup {key} |-> IF k = key THEN value ELSE cache[k]]
        RECURSIVE Store(_, _)
        Store(cache, p) == IF p > Len(unresolved) THEN cache
                           ELSE Store(Put(cache, lookup[unresolved[p]], vec(p)), p + 1)
        to_persist == Store(EmptyCache, 1)
        Position(i) == CHOOSE p \in 1..Len(unresolved) : unresolved[p] = i
    IN IF texts = <<>>
       THEN [status |-> "ok", memory_cache |-> memory_cache, persisted |-> persisted,
             result_keys |-> <<>>, vectors |-> <<>>, encoded |-> <<>>]
       ELSE IF Len(lookup) # Len(texts)
       THEN [status |-> "ValueError", memory_cache |-> memory_cache, persisted |-> persisted,
             result_keys |-> <<>>, vectors |-> <<>>, encoded |-> <<>>]
       ELSE [status |-> "ok",
             memory_cache |-> Store(promoted, 1),
             persisted |-> IF unresolved = <<>> THEN persisted
                           ELSE upsert_cached_embeddings(persisted, to_persist),
             result_keys |-> lookup,
             vectors |-> [i \in 1..Len(lookup) |->
                            IF lookup[i] \in DOMAIN promoted THEN promoted[lookup[i]]
                            ELSE vec(Position(i))],
             encoded |-> [p \in 1..Len(unresolved) |-> texts[unresolved[p]]]]

\* embed_texts(texts, keys)
EmbedTexts ==
    \E texts \in SeqsUpTo({"t1", "t2"}, MaxTexts), keys \in KeyArgs :
       LET lookup == lookup_keys(texts, keys)
           n == IF texts = <<>> \/ Len(lookup) # Len(texts) THEN 0
                ELSE Len(Unresolved(embedder.memory_cache, embedder.persisted, lookup))
       IN \E encoded \in [1..n -> EncodeValues] :
             LET r == embed_texts_cached(embedder.memory_cache, embedder.persisted,
                                         texts, keys, encoded)
             IN /\ embedder' =
                     [memory_cache |-> r.memory_cache, persisted |-> r.persisted,
                      cur |-> [status |-> r.status, texts |-> texts, keys |-> keys,
                               result_keys |-> r.result_keys, vectors |-> r.vectors,
                               encoded |-> r.encoded]]
                /\ UNCHANGED <<system_vars, reranker, ranking, gemini, rewriter, pool, mstore, call>>

\* the daemon is started again: a new service over the same metadata store
EmbedRestart ==
    /\ embedder.cur # NoEmbedCall
    /\ embedder' = [embedder EXCEPT !.memory_cache = EmptyCache, !.cur = NoEmbedCall]
    /\ UNCHANGED <<system_vars, reranker, ranking, gemini, rewriter, pool, mstore, call>>

NextEmbed == EmbedTexts \/ EmbedRestart

SpecEmbed == Init /\ [][NextEmbed]_vars

(***************************************************************************)
(* MetadataStore over several repositories                                 *)
(***************************************************************************)
\* tables chunks, embeddings and llm_summaries are functions of their primary
\* key (chunk_id, content_hash, summary_key); files has the primary key
\* (repo_path, file_path), repo_meta the primary key repo_path; the time
\* columns are left out
first_units == <<reranker, ranking, gemini, rewriter, pool, embedder>>

\* an upsert with ON CONFLICT(chunk_id) DO NOTHING
upsert_chunk_rows_KeepOld(chunks_t, batch) ==
    LET RECURSIVE Upsert(_, _)
        Upsert(t, i) ==
            IF i > Len(batch) THEN t
            ELSE Upsert([id \in DOMAIN t \cup {batch[i].chunk_id} |->
                            IF id \in DOMAIN t THEN t[id]
                            ELSE [batch[i] EXCEPT !.keywords = <<"json", @>>]], i + 1)
    IN Upsert(chunks_t, 1)

\* MetadataStore.upsert_chunks: executemany of INSERT ... ON CONFLICT(chunk_id)
\* DO UPDATE; the lists are stored as JSON text, None as NULL
upsert_chunk_rows(chunks_t, batch) ==
    LET RECURSIVE Upsert(_, _)
        Upsert(t, i) ==
            IF i > Len(batch) THEN t
            ELSE Upsert([id \in DOMAIN t \cup {batch[i].chunk_id} |->
                            IF id = batch[i].chunk_id
                            THEN [batch[i] EXCEPT !.keywords = <<"json", @>>]
                            ELSE t[id]], i + 1)
    IN Upsert(chunks_t, 1)

\* MetadataStore.get_chunks_by_ids: SELECT * FROM chunks WHERE chunk_id IN
\* (...); json.loads of the lists
get_chunk_rows(chunks_t, chunk_ids) ==
    [id \in chunk_ids \cap DOMAIN chunks_t |->
        [chunks_t[id] EXCEPT !.keywords = @[2]]]

\* a clear_repo without its WHERE clauses
clear_repo_Everything(store, repo_path) ==
    [store EXCEPT !.files = {}, !.chunks = EmptyCache, !.repo_meta = {}]

\* MetadataStore.clear_repo
clear_repo(store, repo_path) ==
    [store EXCEPT
       !.files = { r \in @ : r.repo_path # repo_path },
       !.chunks = [id \in { x \in DOMAIN @ : @[x].repo_path # repo_path } |-> @[id]],
       !.repo_meta = @ \ {repo_path}]

\* upsert_chunks(batch): chunk_id is the hash of the relative path, the lines
\* and the text of a chunk, the same in every repository that holds the file
StUpsertChunks ==
    \E batch \in SeqsUpTo({ [chunk_id |-> "c1", repo_path |-> "A", symbol |-> <<>>,
                             keywords |-> <<>>],
                            [chunk_id |-> "c1", repo_path |-> "B", symbol |-> <<"f">>,
                             keywords |-> <<"k", "f">>],
                            [chunk_id |-> "c2", repo_path |-> "A", symbol |-> <<>>,
                             keywords |-> <<"k">>] }, MaxBatch) :
       /\ mstore' = [mstore EXCEPT !.chunks = upsert_chunk_rows(@, batch)]
       /\ call' = [op |-> "upsert_chunks", batch |-> batch]
       /\ UNCHANGED <<system_vars, first_units>>

\* get_chunks_by_ids(chunk_ids)
StGetChunks ==
    \E chunk_ids \in SUBSET {"c1", "c2", "c3"} :
       /\ call' = [op |-> "get_chunks_by_ids", chunk_ids |-> chunk_ids,
                   result |-> get_chunk_rows(mstore.chunks, chunk_ids)]
       /\ UNCHANGED <<system_vars, first_units, mstore>>

\* clear_repo(repo_path); deleted: the rows the three statements deleted
StClearRepo ==
    \E repo_path \in {"A", "B"} :
       /\ mstore' = clear_repo(mstore, repo_path)
       /\ call' = [op |-> "clear_repo", repo_path |-> repo_path,
                   deleted |-> Cardinality(mstore.files \ mstore'.files)
                                 + Cardinality(DOMAIN mstore.chunks \ DOMAIN mstore'.chunks)
                                 + Cardinality(mstore.repo_meta \ mstore'.repo_meta)]
       /\ UNCHANGED <<system_vars, first_units>>

\* upsert_file_hash(repo_path, file_path, content_hash)
StUpsertFileHash ==
    \E repo_path \in {"A", "B"} :
       /\ mstore' = [mstore EXCEPT !.files =
                        { r \in @ : ~(r.repo_path = repo_path /\ r.file_path = "a.py") }
                          \cup {[repo_path |-> repo_path, file_path |-> "a.py",
                                 content_hash |-> "h"]}]
       /\ call' = [op |-> "upsert_file_hash", repo_path |-> repo_path]
       /\ UNCHANGED <<system_vars, first_units>>

\* set_repo_last_indexed(repo_path)
StSetRepoLastIndexed ==
    \E repo_path \in {"A", "B"} :
       /\ mstore' = [mstore EXCEPT !.repo_meta = @ \cup {repo_path}]
       /\ call' = [op |-> "set_repo_last_indexed", repo_path |-> repo_path]
       /\ UNCHANGED <<system_vars, first_units>>

\* upsert_cached_embeddings({key: vector})
StUpsertCachedEmbeddings ==
    /\ mstore' = [mstore EXCEPT !.embeddings =
                     upsert_cached_embeddings(@, [key \in {"h1"} |-> 1000])]
    /\ call' = [op |-> "upsert_cached_embeddings"]
    /\ UNCHANGED <<system_vars, first_units>>

\* upsert_cached_chunk_summaries(model, {summary_key: summary})
StUpsertCachedSummaries ==
    /\ mstore' = [mstore EXCEPT !.llm_summaries =
                     [key \in DOMAIN @ \cup {"s1"} |-> IF key = "s1" THEN "summary" ELSE @[key]]]
    /\ call' = [op |-> "upsert_cached_chunk_summaries"]
    /\ UNCHANGED <<system_vars, first_units>>

NextStore ==
    \/ StUpsertChunks \/ StGetChunks \/ StClearRepo \/ StUpsertFileHash
    \/ StSetRepoLastIndexed \/ StUpsertCachedEmbeddings \/ StUpsertCachedSummaries

SpecStore == Init /\ [][NextStore]_vars

(***************************************************************************)
(* ChunkBuilder: initial drafts, split pass, merge pass                    *)
(***************************************************************************)
\* a text is the sequence of its lines and a line is its estimate_tokens
\* count: estimate_tokens counts the matches of a pattern that never spans a
\* line break, so the count of a text is the sum over its lines
RECURSIVE estimate_tokens(_)
estimate_tokens(text) ==
    IF text = <<>> THEN 0 ELSE Head(text) + estimate_tokens(Tail(text))

\* sorted(..., key=lambda d: (d.start_line, d.end_line)): stable
RECURSIVE sorted_drafts(_)
sorted_drafts(drafts) ==
    IF drafts = <<>> THEN <<>>
    ELSE LET rest == sorted_drafts(SubSeq(drafts, 1, Len(drafts) - 1))
             d == drafts[Len(drafts)]
             k == Cardinality({i \in 1..Len(rest) :
                      \/ rest[i].start_line < d.start_line
                      \/ rest[i].start_line = d.start_line /\ rest[i].end_line <= d.end_line})
         IN SubSeq(rest, 1, k) \o <<d>> \o SubSeq(rest, k + 1, Len(rest))

\* _split_text_by_lines(text, start_line) -> [(text, start, end)]
split_text_by_lines(builder, text, start_line) ==
    LET Part(current, block_start) ==
            [text |-> current, start_line |-> block_start,
             end_line |-> block_start + Len(current) - 1]
        st[idx \in 0..Len(text)] ==
            IF idx = 0
            THEN [chunks |-> <<>>, current |-> <<>>, block_start |-> start_line]
            ELSE LET p == st[idx - 1]
                     line_tokens == text[idx]
                     current_tokens == estimate_tokens(p.current)
                     q == IF /\ p.current # <<>>
                             /\ current_tokens + line_tokens > builder.target_tokens
                             /\ current_tokens >= builder.min_tokens
                          THEN [chunks |-> Append(p.chunks, Part(p.current, p.block_start)),
                                current |-> <<>>,
                                block_start |-> start_line + (idx - 1)]
                          ELSE p
                     current == Append(q.current, line_tokens)
                 IN IF estimate_tokens(current) >= builder.max_tokens
                    THEN [chunks |-> Append(q.chunks, Part(current, q.block_start)),
                          current |-> <<>>,
                          block_start |-> q.block_start + Len(current)]
                    ELSE [q EXCEPT !.current = current]
        last == st[Len(text)]
    IN IF last.current # <<>>
       THEN Append(last.chunks, Part(last.current, last.block_start))
       ELSE last.chunks

\* _initial_drafts(content, symbols), with _slice_file_fallback; a draft also
\* records the symbols it was made of (merged), which the code does not keep
initial_drafts(builder, content, symbols) ==
    LET ordered == sorted_drafts(symbols)
        Draft(i) ==
            LET start == IF ordered[i].start_line > 1 THEN ordered[i].start_line ELSE 1
                end == IF ordered[i].end_line > start THEN ordered[i].end_line ELSE start
                last == IF end < Len(content) THEN end ELSE Len(content)
            IN [start_line |-> start, end_line |-> end, symbol |-> ordered[i].name,
                symbol_kind |-> ordered[i].kind, text |-> SubSeq(content, start, last),
                merged |-> <<ordered[i].name>>]
        Major(part) ==
            [start_line |-> part.start_line, end_line |-> part.end_line, symbol |-> "None",
             symbol_kind |-> "major_block", text |-> part.text, merged |-> <<>>]
        fallback ==
            IF content = <<>> THEN <<>>
            ELSE IF estimate_tokens(content) <= builder.max_tokens
            THEN <<Major([text |-> content, start_line |-> 1, end_line |-> Len(content)])>>
            ELSE LET parts == split_text_by_lines(builder, content, 1)
                 IN [i \in 1..Len(parts) |-> Major(parts[i])]
        RECURSIVE Drafts(_)
        Drafts(i) ==
            IF i > Len(ordered) THEN <<>>
            ELSE (IF estimate_tokens(Draft(i).text) = 0 THEN <<>> ELSE <<Draft(i)>>)
                 \o Drafts(i + 1)
    IN IF symbols = <<>> \/ Drafts(1) = <<>> THEN fallback ELSE Drafts(1)

\* _split_large_drafts(drafts)
RECURSIVE split_large_drafts(_, _)
split_large_drafts(builder, drafts) ==
    IF drafts = <<>> THEN <<>>
    ELSE LET draft == Head(drafts)
             parts == split_text_by_lines(builder, draft.text, draft.start_line)
         IN (IF estimate_tokens(draft.text) <= builder.max_tokens
             THEN <<draft>>
             ELSE [i \in 1..Len(parts) |->
                      [draft EXCEPT !.text = parts[i].text,
                                    !.start_line = parts[i].start_line,
                                    !.end_line = parts[i].end_line]])
            \o split_large_drafts(builder, Tail(drafts))

\* "\n\n".join(part.text for part in buffer): one empty line between the parts
RECURSIVE join_texts(_)
join_texts(buffer) ==
    IF Len(buffer) = 1 THEN buffer[1].text
    ELSE buffer[1].text \o <<0>> \o join_texts(Tail(buffer))

\* flush_buffer() inside _merge_small_drafts
flush_buffer(merged, buffer) ==
    LET RECURSIVE MergedOf(_)
        MergedOf(b) == IF b = <<>> THEN <<>> ELSE Head(b).merged \o MergedOf(Tail(b))
    IN IF buffer = <<>> THEN merged
       ELSE IF Len(buffer) = 1 THEN Append(merged, buffer[1])
       ELSE Append(merged,
                [start_line |-> buffer[1].start_line,
                 end_line |-> buffer[Len(buffer)].end_line,
                 symbol |-> "None", symbol_kind |-> "major_block",
                 text |-> join_texts(buffer), merged |-> MergedOf(buffer)])

\* _merge_small_drafts(drafts)
merge_small_drafts(builder, drafts) ==
    LET sorted == sorted_drafts(drafts)
        st[i \in 0..Len(sorted)] ==
            IF i = 0 THEN [merged |-> <<>>, buffer |-> <<>>]
            ELSE LET p == st[i - 1]
                     draft == sorted[i]
                     gap == draft.start_line - p.buffer[Len(p.buffer)].end_line
                 IN IF estimate_tokens(draft.text) >= builder.min_tokens
                    THEN [merged |-> Append(flush_buffer(p.merged, p.buffer), draft),
                          buffer |-> <<>>]
                    ELSE IF p.buffer = <<>>
                    THEN [p EXCEPT !.buffer = <<draft>>]
                    ELSE IF /\ estimate_tokens(join_texts(p.buffer))
                                 + estimate_tokens(draft.text) <= builder.max_tokens
                            /\ gap <= 40
                    THEN [p EXCEPT !.buffer = Append(@, draft)]
                    ELSE [merged |-> flush_buffer(p.merged, p.buffer), buffer |-> <<draft>>]
        flushed == flush_buffer(st[Len(sorted)].merged, st[Len(sorted)].buffer)
        n == Len(flushed)
        tail == flushed[n]
        prev == flushed[n - 1]
        combined_text == prev.text \o <<0>> \o tail.text
    IN IF drafts = <<>> THEN <<>>
       ELSE IF n >= 2 /\ estimate_tokens(tail.text) < builder.min_tokens
                      /\ estimate_tokens(combined_text) <= builder.max_tokens
       THEN Append(SubSeq(flushed, 1, n - 2),
                   [prev EXCEPT !.end_line = tail.end_line, !.text = combined_text,
                                !.merged = @ \o tail.merged])
       ELSE flushed

\* the symbol lists of a file of at most MaxLines lines: at most MaxSymbols
\* symbols in the parser's order (start_line, end_line), pairwise nested or
\* disjoint
SymbolLists ==
    LET Ranges == {r \in (1..MaxLines) \X (1..MaxLines) : r[1] <= r[2]}
        Before(r, s) == r[1] < s[1] \/ (r[1] = s[1] /\ r[2] < s[2])
        Nested(r, s) == (r[1] <= s[1] /\ s[2] <= r[2]) \/ (s[1] <= r[1] /\ r[2] <= s[2])
        Disjoint(r, s) == r[2] < s[1] \/ s[2] < r[1]
    IN {[i \in DOMAIN l |-> [name |-> l[i], kind |-> "function",
                              start_line |-> l[i][1], end_line |-> l[i][2]]] :
           l \in {l \in SeqsUpTo(Ranges, MaxSymbols) :
                     \A i, j \in DOMAIN l :
                         i < j => Before(l[i], l[j])
                                  /\ (Nested(l[i], l[j]) \/ Disjoint(l[i], l[j]))}}

\* build_chunks(content=..., symbols=...): the three passes; the rest of the
\* call derives the description and the terms of each draft
ChunkBuild ==
    /\ call.op = "none"
    /\ \E builder \in {[min_tokens |-> 2, target_tokens |-> 3, max_tokens |-> 4],
                       [min_tokens |-> 1, target_tokens |-> 2, max_tokens |-> 3]},
          content \in SeqsUpTo({1, 4}, MaxLines) \ {<<>>},
          symbols \in SymbolLists :
          /\ \A i \in DOMAIN symbols : symbols[i].end_line <= Len(content)
          /\ call' = [op |-> "build_chunks", builder |-> builder, content |-> content,
                      symbols |-> symbols,
                      split |-> split_large_drafts(builder,
                                    initial_drafts(builder, content, symbols)),
                      chunks |-> merge_small_drafts(builder,
                                     split_large_drafts(builder,
                                         initial_drafts(builder, content, symbols)))]
    /\ UNCHANGED <<system_vars, first_units, mstore>>

\* the caller has taken the chunks
ChunkReturn ==
    /\ call.op = "build_chunks"
    /\ call' = [op |-> "none"]
    /\ UNCHANGED <<system_vars, first_units, mstore>>

NextChunk == ChunkBuild \/ ChunkReturn

SpecChunk == Init /\ [][NextChunk]_vars


(***************************************************************************)
(* HybridScorer and RankingHeuristics on one hit                           *)
(***************************************************************************)
\* the terms of queries and chunks, in sorted() order; a query is the set of
\* its normalize_terms (every use in the scorer and the heuristics is a
\* membership test or goes through set())
Terms ==
    <<"api", "create", "endpoint", "get", "handler", "list", "post", "route",
      "score", "user">>

HTTP_INTENT_MAP ==
    [post |-> "create", put |-> "update", patch |-> "update", delete |-> "delete",
     get |-> "read"]

\* infer_query_signal(query)
infer_query_signal(terms) ==
    LET INTENT_ALIASES ==
            [create |-> {"create", "add", "new", "insert", "post", "register", "submit"},
             update |-> {"update", "edit", "modify", "put", "patch", "change"},
             delete |-> {"delete", "remove", "destroy", "drop"},
             read |-> {"read", "get", "fetch", "find", "list", "show", "retrieve"}]
        STOP_TERMS ==
            {"the", "this", "that", "with", "from", "into", "where", "when", "which",
             "what", "does", "should", "route", "endpoint", "http", "api", "resource"}
        methods == terms \cap DOMAIN HTTP_INTENT_MAP
        intents == {intent \in DOMAIN INTENT_ALIASES : terms \cap INTENT_ALIASES[intent] # {}}
                   \cup {HTTP_INTENT_MAP[method] : method \in methods}
    IN [intents |-> intents, methods |-> methods,
        structural_terms |-> ((terms \ STOP_TERMS) \cup methods) \cup intents]

\* str.lower() on the route fields of a chunk; normalize_terms of a route
\* resource of one word is that word in lower case
Lower(s) ==
    CASE s = "POST" -> "post" [] s = "GET" -> "get" [] s = "PUT" -> "put"
      [] s = "PATCH" -> "patch" [] s = "DELETE" -> "delete" [] OTHER -> s

\* a score is the fraction num / den, the total over 100 times the product of
\* the components' denominators; the weights are in hundredths
\* HybridScorer.score with the weights 0.20 each
score_EqualWeights(query, vector_score, chunk) ==
    LET query_signal == infer_query_signal(query)
        overlap_score(query_terms, candidates) ==
            IF query_terms = {} \/ candidates = {} THEN [num |-> 0, den |-> 1]
            ELSE [num |-> Cardinality(query_terms \cap candidates),
                  den |-> Cardinality(query_terms)]
        normalized_vector ==
            IF 0 <= vector_score /\ vector_score <= 2
            THEN [num |-> vector_score, den |-> 2]
            ELSE [num |-> IF vector_score + 2 < 0 THEN 0
                          ELSE IF vector_score + 2 > 4 THEN 4
                          ELSE vector_score + 2,
                  den |-> 4]
        candidate ==
            (IF chunk.route_intent # "None" THEN {Lower(chunk.route_intent)} ELSE {})
            \cup (IF chunk.route_method # "None"
                  THEN {Lower(chunk.route_method)}
                       \cup (IF Lower(chunk.route_method) \in DOMAIN HTTP_INTENT_MAP
                             THEN {HTTP_INTENT_MAP[Lower(chunk.route_method)]} ELSE {})
                  ELSE {})
        intent_score ==
            IF query_signal.intents = {} \/ candidate = {} THEN [num |-> 0, den |-> 1]
            ELSE [num |-> Cardinality(query_signal.intents \cap candidate),
                  den |-> Cardinality(query_signal.intents)]
        candidate_structural_terms ==
            chunk.structural_terms
            \cup (IF chunk.route_method # "None" THEN {Lower(chunk.route_method)} ELSE {})
            \cup (IF chunk.route_intent # "None" THEN {Lower(chunk.route_intent)} ELSE {})
            \cup (IF chunk.route_resource # "None" THEN {Lower(chunk.route_resource)} ELSE {})
        v == normalized_vector
        k == overlap_score(query, chunk.keywords)
        s == overlap_score(query, chunk.symbol_terms)
        i == intent_score
        t == overlap_score(query_signal.structural_terms, candidate_structural_terms)
    IN [total |-> [num |-> 20 * v.num * k.den * s.den * i.den * t.den
                           + 20 * k.num * v.den * s.den * i.den * t.den
                           + 20 * s.num * v.den * k.den * i.den * t.den
                           + 20 * i.num * v.den * k.den * s.den * t.den
                           + 20 * t.num * v.den * k.den * s.den * i.den,
                   den |-> 100 * v.den * k.den * s.den * i.den * t.den],
        vector |-> v, keyword |-> k, symbol |-> s, intent |-> i, structural |-> t]

\* HybridScorer.score(query, vector_score, keywords, symbol_terms, route_intent,
\* route_method, route_resource, structural_terms); vector_score in halves
score(query, vector_score, chunk) ==
    LET query_signal == infer_query_signal(query)
        overlap_score(query_terms, candidates) ==
            IF query_terms = {} \/ candidates = {} THEN [num |-> 0, den |-> 1]
            ELSE [num |-> Cardinality(query_terms \cap candidates),
                  den |-> Cardinality(query_terms)]
        normalized_vector ==
            IF 0 <= vector_score /\ vector_score <= 2
            THEN [num |-> vector_score, den |-> 2]
            ELSE [num |-> IF vector_score + 2 < 0 THEN 0
                          ELSE IF vector_score + 2 > 4 THEN 4
                          ELSE vector_score + 2,
                  den |-> 4]
        candidate ==
            (IF chunk.route_intent # "None" THEN {Lower(chunk.route_intent)} ELSE {})
            \cup (IF chunk.route_method # "None"
                  THEN {Lower(chunk.route_method)}
                       \cup (IF Lower(chunk.route_method) \in DOMAIN HTTP_INTENT_MAP
                             THEN {HTTP_INTENT_MAP[Lower(chunk.route_method)]} ELSE {})
                  ELSE {})
        intent_score ==
            IF query_signal.intents = {} \/ candidate = {} THEN [num |-> 0, den |-> 1]
            ELSE [num |-> Cardinality(query_signal.intents \cap candidate),
                  den |-> Cardinality(query_signal.intents)]
        candidate_structural_terms ==
            chunk.structural_terms
            \cup (IF chunk.route_method # "None" THEN {Lower(chunk.route_method)} ELSE {})
            \cup (IF chunk.route_intent # "None" THEN {Lower(chunk.route_intent)} ELSE {})
            \cup (IF chunk.route_resource # "None" THEN {Lower(chunk.route_resource)} ELSE {})
        v == normalized_vector
        k == overlap_score(query, chunk.keywords)
        s == overlap_score(query, chunk.symbol_terms)
        i == intent_score
        t == overlap_score(query_signal.structural_terms, candidate_structural_terms)
    IN [total |-> [num |-> 50 * v.num * k.den * s.den * i.den * t.den
                           + 18 * k.num * v.den * s.den * i.den * t.den
                           + 12 * s.num * v.den * k.den * i.den * t.den
                           + 12 * i.num * v.den * k.den * s.den * t.den
                           + 8 * t.num * v.den * k.den * s.den * i.den,
                   den |-> 100 * v.den * k.den * s.den * i.den * t.den],
        vector |-> v, keyword |-> k, symbol |-> s, intent |-> i, structural |-> t]

\* RankingHeuristics.evaluate with the noise penalty taken once for every
\* negative tag of the chunk
evaluate_PenaltyPerTag(heuristics, query, chunk) ==
    LET query_signal == infer_query_signal(query)
        matched_intents ==
            {tag \in chunk.intent_tags :
                \E intent \in query_signal.intents :
                    tag = [create |-> "create_resource", update |-> "update_resource",
                           delete |-> "delete_resource", read |-> "read_resource"][intent]}
        is_route_chunk ==
            \/ chunk.route_method # "None"
            \/ "route_handler" \in chunk.intent_tags
            \/ chunk.symbol_kind = "route"
        negative == {"seed_data", "migration_script", "test_script", "script"}
                    \cap chunk.intent_tags
        m1 == IF matched_intents # {}
              THEN [num |-> heuristics.intent_boost, den |-> 10] ELSE [num |-> 1, den |-> 1]
        m2 == IF query \cap {"create", "post", "api", "endpoint", "route"} # {} /\ is_route_chunk
              THEN [num |-> m1.num * heuristics.route_boost, den |-> m1.den * 10] ELSE m1
        m3 == IF negative # {}
              THEN [num |-> m2.num * heuristics.noise_penalty ^ Cardinality(negative),
                    den |-> m2.den * 10 ^ Cardinality(negative)]
              ELSE m2
        candidate_terms ==
            chunk.keywords \cup chunk.symbol_terms \cup chunk.structural_terms
            \cup (IF chunk.route_method # "None" THEN {Lower(chunk.route_method)} ELSE {})
            \cup (IF chunk.route_resource # "None" THEN {Lower(chunk.route_resource)} ELSE {})
        overlap == SelectSeq(Terms, LAMBDA term : term \in query \cap candidate_terms)
    IN [multiplier |-> m3, matched_intents |-> matched_intents,
        matched_keywords |-> SubSeq(overlap, 1, IF Len(overlap) < 8 THEN Len(overlap) ELSE 8)]

\* RankingHeuristics.evaluate(query, chunk); the factors are in tenths
evaluate(heuristics, query, chunk) ==
    LET query_signal == infer_query_signal(query)
        matched_intents ==
            {tag \in chunk.intent_tags :
                \E intent \in query_signal.intents :
                    tag = [create |-> "create_resource", update |-> "update_resource",
                           delete |-> "delete_resource", read |-> "read_resource"][intent]}
        is_route_chunk ==
            \/ chunk.route_method # "None"
            \/ "route_handler" \in chunk.intent_tags
            \/ chunk.symbol_kind = "route"
        negative == {"seed_data", "migration_script", "test_script", "script"}
                    \cap chunk.intent_tags
        m1 == IF matched_intents # {}
              THEN [num |-> heuristics.intent_boost, den |-> 10] ELSE [num |-> 1, den |-> 1]
        m2 == IF query \cap {"create", "post", "api", "endpoint", "route"} # {} /\ is_route_chunk
              THEN [num |-> m1.num * heuristics.route_boost, den |-> m1.den * 10] ELSE m1
        m3 == IF negative # {}
              THEN [num |-> m2.num * heuristics.noise_penalty, den |-> m2.den * 10]
              ELSE m2
        candidate_terms ==
            chunk.keywords \cup chunk.symbol_terms \cup chunk.structural_terms
            \cup (IF chunk.route_method # "None" THEN {Lower(chunk.route_method)} ELSE {})
            \cup (IF chunk.route_resource # "None" THEN {Lower(chunk.route_resource)} ELSE {})
        overlap == SelectSeq(Terms, LAMBDA term : term \in query \cap candidate_terms)
    IN [multiplier |-> m3, matched_intents |-> matched_intents,
        matched_keywords |-> SubSeq(overlap, 1, IF Len(overlap) < 8 THEN Len(overlap) ELSE 8)]

\* QueryEngine.query, the body of the loop over the hits: score, evaluate,
\* adjusted_total = total * decision.multiplier
ScoreHit ==
    /\ call.op = "none"
    /\ \E query \in SUBSET {"create", "post", "api", "user", "get"}
                    \cup {{Terms[n] : n \in DOMAIN Terms}},
          vector_score \in {-3, -1, 0, 1, 2, 3},
          keywords \in {{}, {"handler"}, {"post", "create", "handler"},
                        {Terms[n] : n \in DOMAIN Terms}},
          symbol_terms \in {{}, {"create", "post"}},
          route \in {<<"None", "None", "None">>, <<"POST", "create", "post">>,
                     <<"GET", "read", "user">>},
          intent_tags \in {{}, {"create_resource", "route_handler"},
                           {"create_resource", "test_script"}, {"read_resource"},
                           {"seed_data", "script"}},
          structural_terms \in {{}, {"create", "post", "endpoint"}},
          symbol_kind \in {"function", "route"} :
          LET chunk == [keywords |-> keywords, symbol_terms |-> symbol_terms,
                        route_method |-> route[1], route_intent |-> route[2],
                        route_resource |-> route[3], intent_tags |-> intent_tags,
                        structural_terms |-> structural_terms, symbol_kind |-> symbol_kind]
              heuristics == [route_boost |-> 13, noise_penalty |-> 7, intent_boost |-> 12]
              scores == score(query, vector_score, chunk)
              decision == evaluate(heuristics, query, chunk)
          IN call' = [op |-> "score_hit", query |-> query, vector_score |-> vector_score,
                      chunk |-> chunk, heuristics |-> heuristics,
                      query_signal |-> infer_query_signal(query),
                      scores |-> scores, decision |-> decision,
                      adjusted_total |->
                          [num |-> scores.total.num * decision.multiplier.num,
                           den |-> scores.total.den * decision.multiplier.den]]
    /\ UNCHANGED <<system_vars, first_units, mstore>>

\* the match has been appended to the list
ScoreNext ==
    /\ call.op = "score_hit"
    /\ call' = [op |-> "none"]
    /\ UNCHANGED <<system_vars, first_units, mstore>>

NextScore == ScoreHit \/ ScoreNext

SpecScore == Init /\ [][NextScore]_vars


(***************************************************************************)
(* extract_intent_metadata                                                 *)
(***************************************************************************)
\* a text is given by what the three route patterns find in it (js, py:
\* <<method, path>> of the first match of _JS_ROUTE_RE and
\* _PY_DECORATOR_ROUTE_RE, generic: the first match of _GENERIC_METHOD_RE,
\* "None" for the method without a match) and by its normalize_terms
\* extract_route_signal(text, symbol_name): <<>> for None, or <<signal>>
extract_route_signal(text, symbol) ==
    LET found == IF text.js[1] # "None" THEN text.js
                 ELSE IF text.py[1] # "None" THEN text.py
                 ELSE <<text.generic, "None">>
        method == Lower(found[1])
        path == found[2]
        \* _extract_resource(path): the first path segment, singular
        resource == IF path # "None"
                    THEN CASE path = "/posts" -> "post" [] path = "/users/:id" -> "user"
                           [] OTHER -> "None"
                    ELSE symbol.resource
    IN IF found[1] = "None" \/ method \notin DOMAIN HTTP_INTENT_MAP THEN <<>>
       ELSE <<[method |-> CASE method = "post" -> "POST" [] method = "get" -> "GET"
                          [] method = "put" -> "PUT" [] method = "patch" -> "PATCH"
                          [] method = "delete" -> "DELETE",
             intent |-> HTTP_INTENT_MAP[method], resource |-> resource, path |-> path,
             structural_terms |->
                 {method, HTTP_INTENT_MAP[method]}
                 \cup (IF path = "/posts" THEN {"posts"}
                       ELSE IF path = "/users/:id" THEN {"users"} ELSE {})
                 \cup (IF resource # "None" THEN {resource} ELSE {})
                 \cup symbol.terms]>>

\* extract_intent_metadata(file_path, symbol_kind, symbol, text); a file path
\* is given by its normalize_terms and by the noise hints it contains (has)
extract_intent_metadata(file_path, symbol_kind, symbol, text) ==
    LET terms == (file_path.terms \cup symbol.terms) \cup text.terms
        signal == extract_route_signal(text, symbol)
        route_signal == signal[1]
        Tag(tag, applies) == IF applies THEN {tag} ELSE {}
        noise == file_path.has \cap {"seed", "seeds", "migration", "migrations", "fixture",
                                     "fixtures", "dummy", "mock", "test", "tests", "spec",
                                     "script", "scripts"} # {}
                 \/ terms \cap {"fixture", "fixtures", "mock"} # {}
        tags ==
            Tag(IF signal = <<>> THEN "" ELSE route_signal.intent \o "_resource",
                signal # <<>>)
            \cup Tag("seed_data", noise /\ file_path.has \cap {"seed", "seeds"} # {})
            \cup Tag("migration_script",
                     noise /\ file_path.has \cap {"migration", "migrations"} # {})
            \cup Tag("test_script", noise /\ file_path.has \cap {"test", "tests", "spec"} # {})
            \cup Tag("script", noise /\ file_path.has \cap {"script", "scripts"} # {})
            \cup Tag("logging", terms \cap {"log", "logger", "logging", "audit", "trace"} # {})
            \cup Tag("analytics", terms \cap {"analytics", "metric", "metrics", "telemetry",
                                              "tracking", "event"} # {})
            \cup Tag("create_resource",
                     terms \cap {"create", "insert", "add", "register", "new", "post"} # {})
            \cup Tag("update_resource",
                     terms \cap {"update", "modify", "edit", "patch", "put", "upsert"} # {})
            \cup Tag("delete_resource", terms \cap {"delete", "remove", "destroy", "drop"} # {})
            \cup Tag("read_resource",
                     terms \cap {"get", "fetch", "read", "list", "find", "retrieve", "query"} # {})
            \cup Tag("route_handler", signal # <<>>)
        Field(name) == IF signal = <<>> THEN "None" ELSE route_signal[name]
    IN [intent_tags |-> tags, route_method |-> Field("method"),
        route_path |-> Field("path"), route_intent |-> Field("intent"),
        route_resource |-> Field("resource"),
        structural_terms |->
            terms \cup (IF signal = <<>> THEN {}
                        ELSE route_signal.structural_terms
                             \cup {Lower(route_signal.method), route_signal.intent}
                             \cup (IF route_signal.resource # "None"
                                   THEN {route_signal.resource} ELSE {})),
        is_route_handler |-> signal # <<>> \/ symbol_kind = "route"]

\* build_chunks calls extract_intent_metadata for a draft
IntentExtract ==
    /\ call.op = "none"
    /\ \E file_path \in {[path |-> "routes/posts.js", has |-> {},
                          terms |-> {"routes", "posts", "js"}],
                         [path |-> "scripts/seeds/seed_posts.py",
                          has |-> {"seed", "seeds", "script", "scripts"},
                          terms |-> {"scripts", "seeds", "seed_posts", "py"}],
                         [path |-> "tests/test_app.py", has |-> {"test", "tests"},
                          terms |-> {"tests", "test_app", "py"}]},
          symbol_kind \in {"function", "route", "class", "major_block"},
          symbol \in {[name |-> "None", terms |-> {}, resource |-> "None"],
                      [name |-> "POST /posts", terms |-> {"post", "posts"},
                       resource |-> "post"],
                      [name |-> "list_users", terms |-> {"list_users"},
                       resource |-> "list_user"]},
          text \in {\* router.post('/posts', createPostHandler)
                    [js |-> <<"post", "/posts">>, py |-> <<"None", "None">>, generic |-> "post",
                     terms |-> {"router", "post", "posts", "createposthandler"}],
                    \* @router.get('/users/:id') above def show_user
                    [js |-> <<"None", "None">>, py |-> <<"GET", "/users/:id">>, generic |-> "GET",
                     terms |-> {"router", "get", "users", "id", "def", "show_user"}],
                    \* session.delete(url)
                    [js |-> <<"None", "None">>, py |-> <<"None", "None">>, generic |-> "delete",
                     terms |-> {"session", "delete", "url"}],
                    \* client.put(payload) and client.patch(payload)
                    [js |-> <<"None", "None">>, py |-> <<"None", "None">>, generic |-> "put",
                     terms |-> {"client", "put", "patch", "payload"}],
                    [js |-> <<"None", "None">>, py |-> <<"None", "None">>, generic |-> "patch",
                     terms |-> {"client", "patch", "payload"}],
                    \* @app.route('/posts') above def posts; app.use('/api', router)
                    [js |-> <<"None", "None">>, py |-> <<"None", "None">>, generic |-> "None",
                     terms |-> {"app", "route", "posts", "def"}],
                    [js |-> <<"None", "None">>, py |-> <<"None", "None">>, generic |-> "None",
                     terms |-> {"app", "use", "api", "router"}],
                    \* def seed_posts(db): db.insert({'title': 'x'})
                    [js |-> <<"None", "None">>, py |-> <<"None", "None">>, generic |-> "None",
                     terms |-> {"def", "seed_posts", "db", "insert", "title"}]} :
          call' = [op |-> "extract_intent_metadata", file_path |-> file_path,
                   symbol_kind |-> symbol_kind, symbol |-> symbol, text |-> text,
                   route_signal |-> extract_route_signal(text, symbol),
                   meta |-> extract_intent_metadata(file_path, symbol_kind, symbol, text)]
    /\ UNCHANGED <<system_vars, first_units, mstore>>

\* the metadata has been copied into the chunk
IntentReturn ==
    /\ call.op = "extract_intent_metadata"
    /\ call' = [op |-> "none"]
    /\ UNCHANGED <<system_vars, first_units, mstore>>

NextIntent == IntentExtract \/ IntentReturn

SpecIntent == Init /\ [][NextIntent]_vars

(***************************************************************************)
(* walk_source_files                                                       *)
(***************************************************************************)
\* a path is the sequence of its names below the repository root and a tree
\* is the set of the paths of its files
\* SUPPORTED_EXTENSIONS.get(path.suffix.lower())
detect_language(name) ==
    CASE name \in {"main.py", "nested.py", "ignored_file.py", ".env.py", "x.py"} -> "python"
      [] name = "out.JS" -> "javascript"
      [] name = "view.tsx" -> "tsx"
      [] OTHER -> "None"

\* name.startswith(".")
startswith_dot(name) == name \in {".env.py", ".DS_Store", ".venv", ".git"}

\* IgnoreMatcher.matches(candidate, is_dir); gitignore is <<>> without a
\* .gitignore file and else <<patterns>>, a pattern being a name without a
\* slash (matches a file or a directory of that name at any depth, and so
\* everything below it) or a name with a trailing slash (directories only)
ignore_matches(gitignore, rel, is_dir) ==
    LET match_file(as_dir) ==
            \E pattern \in gitignore[1] :
                \E k \in 1..Len(rel) :
                    /\ rel[k] = pattern.name
                    /\ pattern.dir_only => (k < Len(rel) \/ as_dir)
    IN /\ gitignore # <<>>
       /\ rel # <<>>
       /\ match_file(FALSE) \/ (is_dir /\ match_file(TRUE))

\* walk_source_files that descends into every directory and filters the
\* files by their own name and path only
walk_source_files_NoPruning(tree, gitignore) ==
    LET RECURSIVE walk(_)
        walk(root) ==
            LET below == {p \in tree : Len(p) > Len(root) /\ SubSeq(p, 1, Len(root)) = root}
                dirs == {p[Len(root) + 1] : p \in {q \in below : Len(q) > Len(root) + 1}}
                filenames == {p[Len(root) + 1] : p \in {q \in below : Len(q) = Len(root) + 1}}
                retained_dirs == dirs
                found == {Append(root, name) :
                             name \in {n \in filenames :
                                          /\ n \notin {".DS_Store"} /\ ~startswith_dot(n)
                                          /\ ~ignore_matches(gitignore, Append(root, n), FALSE)
                                          /\ detect_language(n) # "None"}}
            IN found \cup UNION {walk(Append(root, d)) :
                                    d \in retained_dirs}
    IN walk(<<>>)

\* walk_source_files(repo_path): os.walk top-down from root, dirs[:] pruned
walk_source_files(tree, gitignore) ==
    LET RECURSIVE walk(_)
        walk(root) ==
            LET below == {p \in tree : Len(p) > Len(root) /\ SubSeq(p, 1, Len(root)) = root}
                dirs == {p[Len(root) + 1] : p \in {q \in below : Len(q) > Len(root) + 1}}
                filenames == {p[Len(root) + 1] : p \in {q \in below : Len(q) = Len(root) + 1}}
                retained_dirs ==
                    {d \in dirs :
                        /\ d \notin {".git", "node_modules", "dist", "build", "__pycache__", ".xtrc"}
                        /\ ~startswith_dot(d)
                        /\ ~ignore_matches(gitignore, Append(root, d), TRUE)}
                found == {Append(root, name) :
                             name \in {n \in filenames :
                                          /\ n \notin {".DS_Store"} /\ ~startswith_dot(n)
                                          /\ ~ignore_matches(gitignore, Append(root, n), FALSE)
                                          /\ detect_language(n) # "None"}}
            IN found \cup UNION {walk(Append(root, d)) :
                                    d \in retained_dirs}
    IN walk(<<>>)

\* Indexer.index walks the repository
WalkFiles ==
    /\ call.op = "none"
    /\ \E tree \in SUBSET {<<"main.py">>, <<"ignored_file.py">>, <<".env.py">>,
                           <<"notes.md">>, <<"src", "main.py">>, <<"src", "out.JS">>,
                           <<"src", ".DS_Store">>, <<"node_modules", "x.py">>,
                           <<"ignored_dir", "nested.py">>, <<".venv", "x.py">>,
                           <<"src", "ignored_dir", "view.tsx">>,
                           <<"src", "build", "ignored_dir", "x.py">>},
          gitignore \in {<<>>, <<{}>>,
                         <<{[name |-> "ignored_dir", dir_only |-> TRUE]}>>,
                         <<{[name |-> "ignored_dir", dir_only |-> TRUE],
                            [name |-> "ignored_file.py", dir_only |-> FALSE]}>>,
                         <<{[name |-> "src", dir_only |-> FALSE]}>>} :
          call' = [op |-> "walk_source_files", tree |-> tree, gitignore |-> gitignore,
                   files |-> walk_source_files(tree, gitignore)]
    /\ UNCHANGED <<system_vars, first_units, mstore>>

\* the indexer has taken the list
WalkReturn ==
    /\ call.op = "walk_source_files"
    /\ call' = [op |-> "none"]
    /\ UNCHANGED <<system_vars, first_units, mstore>>

NextWalk == WalkFiles \/ WalkReturn

SpecWalk == Init /\ [][NextWalk]_vars

(***************************************************************************)
(* IndexChunkSummarizer                                                    *)
(***************************************************************************)
\* _summary_key(chunk): sha256 of model_name|chunk_id|content_hash|text
summary_key(model_name, chunk) ==
    <<model_name, chunk.chunk_id, chunk.content_hash, chunk.text>>

\* _clean_summary(text): " ".join(text.strip().split()); the cut at max_chars
\* is left out, the summaries here are short
clean_summary(text) ==
    CASE text = "sum  A" -> "sum A" [] OTHER -> text

\* summarize_chunks without the upsert of the generated summaries
summarize_chunks_NoPersist(llm_summaries, model_name, file_chunks, outcomes) ==
    LET key(i) == summary_key(model_name, file_chunks[i])
        cached(i) == key(i) \in DOMAIN llm_summaries /\ llm_summaries[key(i)] # ""
        generated(i) ==
            /\ ~cached(i)
            /\ outcomes[i].status = "ok"
            /\ clean_summary(outcomes[i].text) # ""
        with_summary == {i \in DOMAIN file_chunks : cached(i) \/ generated(i)}
        RECURSIVE Latency(_)
        Latency(i) ==
            IF i = 0 THEN 0
            ELSE Latency(i - 1) + (IF generated(i) THEN outcomes[i].elapsed ELSE 0)
    IN [summaries |->
            [id \in {file_chunks[i].chunk_id : i \in with_summary} |->
                LET i == CHOOSE j \in with_summary : file_chunks[j].chunk_id = id
                IN IF cached(i) THEN llm_summaries[key(i)]
                   ELSE clean_summary(outcomes[i].text)],
        latency_ms |-> Latency(Len(file_chunks)),
        to_store |-> << >>,
        llm_calls |-> Cardinality({i \in DOMAIN file_chunks : ~cached(i)})]

\* IndexChunkSummarizer.summarize_chunks(chunks) over the table llm_summaries;
\* outcomes[i] is what llm_client.complete_text does when called for chunks[i];
\* to_store is what the call upserts at its end, llm_calls counts the calls of
\* complete_text
summarize_chunks(llm_summaries, model_name, file_chunks, outcomes) ==
    LET key(i) == summary_key(model_name, file_chunks[i])
        cached(i) == key(i) \in DOMAIN llm_summaries /\ llm_summaries[key(i)] # ""
        generated(i) ==
            /\ ~cached(i)
            /\ outcomes[i].status = "ok"
            /\ clean_summary(outcomes[i].text) # ""
        with_summary == {i \in DOMAIN file_chunks : cached(i) \/ generated(i)}
        RECURSIVE Latency(_)
        Latency(i) ==
            IF i = 0 THEN 0
            ELSE Latency(i - 1) + (IF generated(i) THEN outcomes[i].elapsed ELSE 0)
    IN [summaries |->
            [id \in {file_chunks[i].chunk_id : i \in with_summary} |->
                LET i == CHOOSE j \in with_summary : file_chunks[j].chunk_id = id
                IN IF cached(i) THEN llm_summaries[key(i)]
                   ELSE clean_summary(outcomes[i].text)],
        latency_ms |-> Latency(Len(file_chunks)),
        to_store |->
            [k \in {key(i) : i \in {j \in DOMAIN file_chunks : generated(j)}} |->
                clean_summary(outcomes[CHOOSE j \in DOMAIN file_chunks : key(j) = k].text)],
        llm_calls |-> Cardinality({i \in DOMAIN file_chunks : ~cached(i)})]

\* Indexer.index for the chunks of one file: summarize_chunks, then
\* apply_summaries; the summarizer is built with an LLM client
SumSummarize ==
    \E model_name \in {"m1", "m2"},
       file_chunks \in {<<>>,
                   <<[chunk_id |-> "c1", content_hash |-> "h1", text |-> "t1",
                      llm_summary |-> "None"]>>,
                   <<[chunk_id |-> "c2", content_hash |-> "h2", text |-> "t2",
                      llm_summary |-> "None"]>>,
                   <<[chunk_id |-> "c1", content_hash |-> "h1", text |-> "t1",
                      llm_summary |-> "None"],
                     [chunk_id |-> "c2", content_hash |-> "h2", text |-> "t2",
                      llm_summary |-> "None"]>>} :
       \E outcomes \in [DOMAIN file_chunks ->
                           {[status |-> "ok", text |-> "sum  A", elapsed |-> 2],
                            [status |-> "ok", text |-> "sum B", elapsed |-> 1],
                            [status |-> "LLMClientError", text |-> "", elapsed |-> 0],
                            [status |-> "LLMClientTimeoutError", text |-> "",
                             elapsed |-> 0]}] :
          LET r == summarize_chunks(mstore.llm_summaries, model_name, file_chunks, outcomes)
          IN /\ mstore' = [mstore EXCEPT !.llm_summaries =
                              [k \in DOMAIN @ \cup DOMAIN r.to_store |->
                                  IF k \in DOMAIN r.to_store THEN r.to_store[k] ELSE @[k]]]
             /\ call' = [op |-> "summarize_chunks", model_name |-> model_name,
                         chunks |-> file_chunks, outcomes |-> outcomes,
                         summaries |-> r.summaries, latency_ms |-> r.latency_ms,
                         llm_calls |-> r.llm_calls,
                         hits |-> {file_chunks[i].chunk_id : i \in
                                      {j \in DOMAIN file_chunks :
                                          summary_key(model_name, file_chunks[j])
                                              \in DOMAIN mstore.llm_summaries}},
                         indexed |->
                             [i \in DOMAIN file_chunks |->
                                 [file_chunks[i] EXCEPT !.llm_summary =
                                     IF file_chunks[i].chunk_id \in DOMAIN r.summaries
                                     THEN r.summaries[file_chunks[i].chunk_id] ELSE @]]]
             /\ UNCHANGED <<system_vars, first_units>>

NextSum == SumSummarize

SpecSum == Init /\ [][NextSum]_vars

(***************************************************************************)
(* Indexer.index aborted by an exception                                   *)
(***************************************************************************)
\* the positions of the loop over changed_files at which the next store or
\* embedding call of the current file may raise: after delete_chunk_ids and
\* up to upsert_file_hash
FailurePcs == {"del_old_meta", "embed", "upsert_vec", "upsert_meta", "upsert_hash"}

\* the call the thread is about to make raises (sqlite3.Error, a qdrant
\* client error, an embedding failure) before it changes anything; the
\* exception leaves Indexer.index and AinavDaemon.index releases the lock.
\* History: the file, the hash the call was writing and the hash stored for
\* the file when the call started.
IdxFail(t) ==
    /\ th[t].pc \in FailurePcs
    /\ call.op = "none"
    /\ LET cf == th[t].changed[th[t].i]
       IN call' = [op |-> "index_failed", at |-> th[t].pc,
                   file_path |-> cf.file_path, file_hash |-> cf.file_hash,
                   new_ids |-> ChunkIdsOf(th[t].new_chunks)]
    /\ Set(t, [th[t] EXCEPT !.result = "error", !.code = "Exception",
                            !.pc = "done", !.i = 1,
                            !.old_chunk_ids = {}, !.new_chunks = {}, !.vec_dim = 0])
    /\ indexed_clean' = FALSE
    /\ UNCHANGED <<env_vars, store_vars, daemon_vars, first_units, mstore>>

\* indexing over a tree of one file, one client at a time, with at most one
\* aborted call; the daemon keeps its model and the clock stands still
NextFail ==
    \/ \E c \in {Absent} \cup Contents : EditFile("a.py", c)
    \/ \E t \in {"t1"} :
          \/ \E b \in BOOLEAN : Call(t, "index", b)
          \/ GuardAcquire(t) \/ ServicesLookup(t) \/ ServicesCreate(t)
          \/ LockAcquire(t) \/ Finish(t)
          \/ IndexStep(t)
          \/ IdxFail(t)

SpecFail == Init /\ [][NextFail]_vars

(***************************************************************************)
(* EmbeddingService: the lazily loaded model                               *)
(***************************************************************************)
\* EmbeddingService.__init__: _model = None, _dimension = None (0), _lock
\* free. History: constructed counts the SentenceTransformer constructions,
\* out[t] is what the thread's last property read returned or raised.
LazyService ==
    [op |-> "lazy", model |-> FALSE, dimension |-> 0, lock |-> {}, constructed |-> 0,
     pc |-> [t \in Threads |-> "idle"], use |-> [t \in Threads |-> ""],
     out |-> [t \in Threads |-> [kind |-> "", value |-> 0]]]

\* the daemon builds the service bundle of a repository
LzCreate ==
    /\ call.op = "none"
    /\ call' = LazyService
    /\ UNCHANGED <<system_vars, first_units, mstore>>

\* a thread reads a property of the service: `model` (embed_texts) or
\* `dimension` (Indexer.index, embed_texts of no texts)
LzRead(t, property) ==
    /\ call.op = "lazy"
    /\ call.pc[t] = "idle"
    /\ call' = [call EXCEPT !.use[t] = property,
                            !.out[t] = [kind |-> "", value |-> 0],
                            !.pc[t] = IF property = "dimension" THEN "d_check" ELSE "m_check"]
    /\ UNCHANGED <<system_vars, first_units, mstore>>

\* dimension: if self._dimension is None
LzDimensionCheck(t) ==
    /\ call.op = "lazy"
    /\ call.pc[t] = "d_check"
    /\ call' = [call EXCEPT !.pc[t] = IF call.dimension = 0 THEN "m_check" ELSE "d_return"]
    /\ UNCHANGED <<system_vars, first_units, mstore>>

\* model: if self._model is None (outside the lock)
LzModelCheck(t) ==
    /\ call.op = "lazy"
    /\ call.pc[t] = "m_check"
    /\ call' = [call EXCEPT !.pc[t] = IF call.model THEN "m_return" ELSE "m_lock"]
    /\ UNCHANGED <<system_vars, first_units, mstore>>

\* model: with self._lock, then the second test of self._model
LzModelLock(t) ==
    /\ call.op = "lazy"
    /\ call.pc[t] = "m_lock"
    /\ call.lock = {}
    /\ call' = IF call.model
               THEN [call EXCEPT !.pc[t] = "m_return"]
               ELSE [call EXCEPT !.lock = {t}, !.pc[t] = "m_load"]
    /\ UNCHANGED <<system_vars, first_units, mstore>>

\* model: self._model = SentenceTransformer(self.settings.model_name)
LzModelLoad(t) ==
    /\ call.op = "lazy"
    /\ call.pc[t] = "m_load"
    /\ call' = [call EXCEPT !.model = TRUE, !.constructed = @ + 1, !.pc[t] = "m_dimension"]
    /\ UNCHANGED <<system_vars, first_units, mstore>>

\* model: self._dimension = int(get_sentence_embedding_dimension()); the
\* with-block ends
LzModelDimension(t) ==
    /\ call.op = "lazy"
    /\ call.pc[t] = "m_dimension"
    /\ call' = [call EXCEPT !.dimension = modelDim, !.lock = {}, !.pc[t] = "m_return"]
    /\ UNCHANGED <<system_vars, first_units, mstore>>

\* model: return self._model, to the caller or to `dimension`
LzModelReturn(t) ==
    /\ call.op = "lazy"
    /\ call.pc[t] = "m_return"
    /\ call' = IF call.use[t] = "model"
               THEN [call EXCEPT !.out[t] = [kind |-> "model", value |-> 0], !.pc[t] = "idle"]
               ELSE [call EXCEPT !.pc[t] = "d_return"]
    /\ UNCHANGED <<system_vars, first_units, mstore>>

\* dimension: assert self._dimension is not None; return self._dimension
\* (python -O drops the assert and None is returned)
LzDimensionReturn(t, optimized) ==
    /\ call.op = "lazy"
    /\ call.pc[t] = "d_return"
    /\ call' = [call EXCEPT !.pc[t] = "idle",
                            !.out[t] = IF call.dimension # 0
                                       THEN [kind |-> "int", value |-> call.dimension]
                                       ELSE IF optimized
                                            THEN [kind |-> "None", value |-> 0]
                                            ELSE [kind |-> "AssertionError", value |-> 0]]
    /\ UNCHANGED <<system_vars, first_units, mstore>>

NextLazy ==
    \/ LzCreate
    \/ \E t \in Threads :
          \/ \E property \in {"model", "dimension"} : LzRead(t, property)
          \/ LzDimensionCheck(t) \/ LzModelCheck(t) \/ LzModelLock(t)
          \/ LzModelLoad(t) \/ LzModelDimension(t) \/ LzModelReturn(t)
          \/ \E optimized \in BOOLEAN : LzDimensionReturn(t, optimized)

SpecLazy == Init /\ [][NextLazy]_vars

(***************************************************************************)
(* The lru_cache of a model client under concurrent callers                *)
(***************************************************************************)
Prompts == {"p1", "p2"}

\* GeminiClient.__init__ / LLMTextClient.__init__: lru_cache(maxsize=...)
\* around _generate_uncached, empty. Per thread: the key of its call and what
\* the call returned ("" = nothing yet). History, per prompt: the model
\* invocations and the raw texts handed to callers; whether an entry was
\* ever evicted.
LruClient ==
    [op |-> "lru", cache |-> <<>>,
     pc |-> [t \in Threads |-> "idle"], key |-> [t \in Threads |-> <<"", "">>],
     out |-> [t \in Threads |-> ""], calls |-> [t \in Threads |-> 0],
     invoked |-> [p \in Prompts |-> 0], failed |-> [p \in Prompts |-> 0],
     served |-> [p \in Prompts |-> {}], evicted |-> FALSE]

LruCreate ==
    /\ call.op = "none"
    /\ call' = LruClient
    /\ UNCHANGED <<system_vars, first_units, mstore>>

\* the wrapper of functools.lru_cache, up to the call of the wrapped
\* function: a hit returns the stored value and moves the entry to the
\* recent end; a miss calls _generate_uncached without holding any lock
LruLookup(t, prompt) ==
    /\ call.op = "lru"
    /\ call.pc[t] = "idle"
    /\ call.calls[t] < MaxCalls
    /\ LET key == <<"m1", prompt>>
       IN call' = IF lru_has(call.cache, key)
                  THEN LET value == call.cache[lru_value(call.cache, key)].value
                       IN [call EXCEPT !.cache = lru_touch(@, key), !.key[t] = key,
                                       !.out[t] = value, !.calls[t] = @ + 1,
                                       !.served[prompt] = @ \cup {value}]
                  ELSE [call EXCEPT !.key[t] = key, !.out[t] = "", !.calls[t] = @ + 1,
                                    !.invoked[prompt] = @ + 1, !.pc[t] = "generate"]
    /\ UNCHANGED <<system_vars, first_units, mstore>>

\* _generate_uncached returns or raises, and the wrapper ends: a result is
\* stored unless the key was stored during the call, and the caller gets the
\* result of its own call; an exception stores nothing
LruGenerate(t, outcome) ==
    /\ call.op = "lru"
    /\ call.pc[t] = "generate"
    /\ LET key == call.key[t]
           prompt == key[2]
           r == text_generate_uncached(outcome)
       IN call' = IF r.ok
                  THEN [call EXCEPT !.cache = IF lru_has(@, key) THEN @
                                              ELSE lru_put(@, key, r.raw),
                                    !.out[t] = r.raw, !.pc[t] = "idle",
                                    !.served[prompt] = @ \cup {r.raw},
                                    !.evicted = @ \/ (~lru_has(call.cache, key)
                                                      /\ Len(call.cache) = cache_size)]
                  ELSE [call EXCEPT !.out[t] = r.error, !.pc[t] = "idle",
                                    !.failed[prompt] = @ + 1]
    /\ UNCHANGED <<system_vars, first_units, mstore>>

\* query threads that call one client with the same and with other prompts
NextLru ==
    \/ LruCreate
    \/ \E t \in Threads :
          \/ \E prompt \in Prompts : LruLookup(t, prompt)
          \/ \E outcome \in {"timeout", "raise", "ans", "q1"} : LruGenerate(t, outcome)

SpecLru == Init /\ [][NextLru]_vars

(***************************************************************************)
(* QdrantVectorStore: search of a query thread against ensure_collection   *)
(* of the indexing thread, one client call per step                        *)
(***************************************************************************)
\* the collection of the repository as the qdrant client sees it; the
\* indexing thread inside ensure_collection (e_*: its position, arguments
\* and local `exists`), the query thread inside search (s_*: its position
\* and what the call returned or raised)
VectorStoreInit ==
    [op |-> "qdrant", exists |-> FALSE, size |-> 0,
     e_pc |-> "idle", e_size |-> 0, e_recreate |-> FALSE, e_recreated |-> FALSE,
     s_pc |-> "idle", s_out |-> "", dropped |-> FALSE]

VsCreate ==
    /\ call.op = "none"
    /\ call' = VectorStoreInit
    /\ UNCHANGED <<system_vars, first_units, mstore>>

\* ensure_collection: exists = client.collection_exists(collection)
VsEnsureExists(vector_size, recreate) ==
    /\ call.op = "qdrant"
    /\ call.e_pc = "idle"
    /\ call' = [call EXCEPT !.e_size = vector_size, !.e_recreate = recreate,
                            !.e_recreated = FALSE,
                            !.e_pc = IF ~call.exists THEN "create"
                                     ELSE IF recreate THEN "delete" ELSE "size"]
    /\ UNCHANGED <<system_vars, first_units, mstore>>

\* ensure_collection: existing_size = self._collection_vector_size(collection)
VsEnsureSize ==
    /\ call.op = "qdrant"
    /\ call.e_pc = "size"
    /\ call' = [call EXCEPT !.e_pc = IF call.size # call.e_size THEN "delete" ELSE "idle"]
    /\ UNCHANGED <<system_vars, first_units, mstore>>

\* ensure_collection: client.delete_collection(collection)
VsEnsureDelete ==
    /\ call.op = "qdrant"
    /\ call.e_pc = "delete"
    /\ call' = [call EXCEPT !.exists = FALSE, !.size = 0, !.e_recreated = TRUE,
                            !.e_pc = "create",
                            !.dropped = @ \/ call.s_pc \in {"size", "points"}]
    /\ UNCHANGED <<system_vars, first_units, mstore>>

\* ensure_collection: client.create_collection(collection, size=vector_size)
VsEnsureCreate ==
    /\ call.op = "qdrant"
    /\ call.e_pc = "create"
    /\ call' = [call EXCEPT !.exists = TRUE, !.size = call.e_size, !.e_recreated = TRUE,
                            !.e_pc = "idle"]
    /\ UNCHANGED <<system_vars, first_units, mstore>>

\* search: if not client.collection_exists(collection): return []
VsSearchExists ==
    /\ call.op = "qdrant"
    /\ call.s_pc = "idle"
    /\ call' = IF call.exists
               THEN [call EXCEPT !.s_out = "", !.s_pc = "size", !.dropped = FALSE]
               ELSE [call EXCEPT !.s_out = "[]", !.dropped = FALSE]
    /\ UNCHANGED <<system_vars, first_units, mstore>>

\* search: existing_size = self._collection_vector_size(collection), which
\* is client.get_collection: it raises for a collection that is not there
\* (ValueError of the local client, UnexpectedResponse of the remote one)
VsSearchSize(query_dim) ==
    /\ call.op = "qdrant"
    /\ call.s_pc = "size"
    /\ call' = IF ~call.exists
               THEN [call EXCEPT !.s_out = "CollectionNotFound", !.s_pc = "idle"]
               ELSE IF call.size # query_dim
                    THEN [call EXCEPT !.s_out = "INDEX_DIMENSION_MISMATCH", !.s_pc = "idle"]
                    ELSE [call EXCEPT !.s_pc = "points"]
    /\ UNCHANGED <<system_vars, first_units, mstore>>

\* search: client.search / client.query_points; a ValueError (the local
\* client's for a missing collection or another vector size) becomes
\* INDEX_DIMENSION_MISMATCH, any other exception leaves search as it is
VsSearchPoints(query_dim, local_client) ==
    /\ call.op = "qdrant"
    /\ call.s_pc = "points"
    /\ call' = [call EXCEPT !.s_pc = "idle",
                            !.s_out = IF call.exists /\ call.size = query_dim THEN "hits"
                                      ELSE IF local_client THEN "INDEX_DIMENSION_MISMATCH"
                                      ELSE "UnexpectedResponse"]
    /\ UNCHANGED <<system_vars, first_units, mstore>>

\* the indexing thread (under the repository's lock) calls ensure_collection
\* with the dimension of the vectors at hand, the query thread searches with
\* a vector of the running model
NextRace ==
    \/ VsCreate
    \/ \E vector_size \in Dims, recreate \in BOOLEAN : VsEnsureExists(vector_size, recreate)
    \/ VsEnsureSize \/ VsEnsureDelete \/ VsEnsureCreate
    \/ VsSearchExists
    \/ VsSearchSize(modelDim)
    \/ \E local_client \in BOOLEAN : VsSearchPoints(modelDim, local_client)

SpecRace == Init /\ [][NextRace]_vars

(***************************************************************************)
(* LocalReranker.rerank                                                    *)
(***************************************************************************)
\* what _predict_scores does for n target matches: it times out, it raises,
\* or it returns the scores (kept as their sigmoids, in thousandths)
Predictions(n) ==
    { [ok |-> FALSE, error |-> e, sig |-> <<>>] : e \in {"timeout", "raise"} }
    \cup { [ok |-> TRUE, error |-> "", sig |-> sig] : sig \in SigmoidLists(n) }

\* a rerank that sorts the remainder along with the target matches
local_reranker_rerank_SortAll(enabled, top_k, matches, prediction) ==
    IF ~enabled \/ Len(matches) <= 1 \/ ~prediction.ok
    THEN [matches |-> matches, used |-> FALSE]
    ELSE LET n == Min2(Len(matches), top_k)
             target == SubSeq(matches, 1, n)
             remainder == SubSeq(matches, n + 1, Len(matches))
             reranked == [k \in 1..n |->
                             [target[k] EXCEPT
                                !.score = (7 * target[k].score + 3 * prediction.sig[k]) \div 10]]
         IN [matches |-> SortDesc(reranked \o remainder), used |-> TRUE]

\* LocalReranker.rerank(query, matches) of a reranker with max_candidates =
\* top_k: scores in thousandths
local_reranker_rerank(enabled, top_k, matches, prediction) ==
    IF ~enabled \/ Len(matches) <= 1 \/ ~prediction.ok
    THEN [matches |-> matches, used |-> FALSE]
    ELSE LET n == Min2(Len(matches), top_k)
             target == SubSeq(matches, 1, n)
             remainder == SubSeq(matches, n + 1, Len(matches))
             reranked == [k \in 1..n |->
                             [target[k] EXCEPT
                                !.score = (7 * target[k].score + 3 * prediction.sig[k]) \div 10]]
         IN [matches |-> SortDesc(reranked) \o remainder, used |-> TRUE]

\* one rerank call: any matches in any order of scores, a reranker with a
\* window of one to three candidates
LrRerank ==
    \E n \in 1..MaxReranked, top_k \in 1..3, enabled \in BOOLEAN :
       \E scores \in [1..n -> HybridScores], prediction \in Predictions(Min2(n, top_k)) :
          LET matches == [k \in 1..n |-> [id |-> k, score |-> scores[k]]]
          IN /\ call.op = "none"
             /\ call' = [op |-> "local_rerank", enabled |-> enabled, max_candidates |-> top_k,
                         matches |-> matches, prediction |-> prediction,
                         out |-> local_reranker_rerank(enabled, top_k, matches, prediction)]
             /\ UNCHANGED <<system_vars, first_units, mstore>>

LrReturn ==
    /\ call.op = "local_rerank"
    /\ call' = [op |-> "none"]
    /\ UNCHANGED <<system_vars, first_units, mstore>>

NextLocal == LrRerank \/ LrReturn

SpecLocal == Init /\ [][NextLocal]_vars

(***************************************************************************)
(* HybridScorer._normalize_vector_score                                    *)
(***************************************************************************)
\* _normalize_vector_score(score): the score in units of 1/Resolution, the
\* result in units of 1/(2 * Resolution)
normalize_vector_score(raw_score) ==
    IF 0 <= raw_score /\ raw_score <= Resolution
    THEN 2 * raw_score
    ELSE LET half == raw_score + Resolution
         IN IF half > 2 * Resolution THEN 2 * Resolution
            ELSE IF half < 0 THEN 0 ELSE half

\* the scorer normalises the raw scores of two hits of one search
NormalizeHits ==
    \E a \in (0 - Resolution - 2)..(Resolution + 2), b \in (0 - Resolution - 2)..(Resolution + 2) :
       /\ call.op = "none"
       /\ call' = [op |-> "normalize", a |-> a, b |-> b,
                   normalized_a |-> normalize_vector_score(a),
                   normalized_b |-> normalize_vector_score(b)]
       /\ UNCHANGED <<system_vars, first_units, mstore>>

NormalizeReturn ==
    /\ call.op = "normalize"
    /\ call' = [op |-> "none"]
    /\ UNCHANGED <<system_vars, first_units, mstore>>

NextNormalize == NormalizeHits \/ NormalizeReturn

SpecNormalize == Init /\ [][NextNormalize]_vars

(***************************************************************************)
(* Properties                                                              *)
(***************************************************************************)
IndexerPcs ==
    {"walk", "clear", "ensure", "clear_promoted", "scan", "del_vec", "del_meta",
     "del_files", "get_old", "del_old_vec", "del_old_meta", "embed", "upsert_vec",
     "upsert_meta", "upsert_hash", "stamp", "done"}

\* the thread is inside Indexer.index, or has left it and still holds the lock
InIndexer(t) == th[t].op = "index" /\ th[t].pc \in IndexerPcs

PointIds(coll) == { p.chunk_id : p \in coll.points }
FileRows(files_t, f) == { r \in files_t : r.file_path = f }
ChunkRows(chunks_t, f) == { r \in chunks_t : r.file_path = f }
FilePoints(coll, f) == { p \in coll.points : p.file_path = f }

\* C4: per-repository serialization.  At most one thread is inside
\* Indexer.index at any time; the daemon builds the repository's service
\* bundle and lock once (never a second time, and exactly once when the
\* bundle is registered); only threads serving daemon.index hold the lock,
\* a thread serving query or status never does.
C4_PerRepoSerialization ==
    /\ Cardinality({ t \in Threads : InIndexer(t) }) <= 1
    /\ created <= 1
    /\ (repos => created = 1)
    /\ \A t \in Threads : t \in lock => th[t].op = "index"
    /\ \A t \in Threads : InIndexer(t) => t \in lock

\* one thread is inside Indexer.index while the other waits for the lock
C4_Witness ==
    \E t, u \in Threads :
        /\ t # u
        /\ InIndexer(t) /\ th[t].pc = "embed"
        /\ th[u].op = "index" /\ th[u].pc = "lock"
        /\ created = 1

\* C8: the contract of ensure_collection, for the collection of every
\* reachable state and every vector size and recreate flag.  After the call
\* the collection exists with the requested size; an existing collection is
\* dropped exactly when recreate is set or its size differs from the request;
\* an existing collection of the requested size, recreate not set, is left as
\* it was with all its points; the call returns true exactly when it dropped
\* or created a collection, and a collection is created exactly when none
\* existed or the existing one was dropped.
C8_EnsureCollection ==
    \A vector_size \in Dims, recreate \in BOOLEAN :
        LET e == ensure_collection(collection, vector_size, recreate)
            must_drop == collection.exists /\ (recreate \/ collection.size # vector_size)
        IN /\ e.collection.exists
           /\ e.collection.size = vector_size
           /\ e.dropped = must_drop
           /\ e.created = (~collection.exists \/ must_drop)
           /\ (e.created => e.collection.points = {})
           /\ (collection.exists /\ ~must_drop => e.collection = collection)
           /\ e.recreated = (e.dropped \/ e.created)

\* a non-rebuild index call has just had a populated collection of another
\* size dropped and created anew by ensure_collection
C8_Witness ==
    \E t \in Threads :
        /\ At(t, "clear_promoted")
        /\ th[t].pre_ids # {}
        /\ chunks # {}
        /\ collection.exists /\ collection.size = modelDim /\ collection.points = {}

\* C3: order of the writes for a changed file.  A step that writes a vector
\* point of a file finds no point and no chunk row of that file in the stores;
\* a step that writes chunk rows of a file finds no chunk row of that file, and
\* the only vector points of the file are those of the rows being written; a
\* step that writes the FileRecord of a file finds the chunks built from the
\* hashed text in both stores.
C3_DeleteBeforeInsert ==
    [][ /\ \A p \in collection'.points \ collection.points :
              /\ FilePoints(collection, p.file_path) = {}
              /\ ChunkRows(chunks, p.file_path) = {}
        /\ \A r \in chunks' \ chunks :
              /\ ChunkRows(chunks, r.file_path) = {}
              /\ { p.chunk_id : p \in FilePoints(collection, r.file_path) }
                    \subseteq ChunkIdsOf(chunks' \ chunks)
        /\ \A r \in files' \ files :
              LET new == ChunkIdsOf(build_chunks(r.file_path, r.content_hash[2],
                                                 r.content_hash))
              IN /\ new \subseteq ChunkIdsOf(chunks)
                 /\ new \subseteq PointIds(collection)
      ]_vars

\* a changed file that had chunks before: they were removed, its new chunks
\* are in both stores and its FileRecord is about to be written
C3_Witness ==
    \E t \in Threads :
        /\ At(t, "upsert_hash")
        /\ th[t].old_chunk_ids # {}
        /\ ~th[t].rebuild
        /\ ChunkIdsOf(th[t].new_chunks) \subseteq ChunkIdsOf(chunks)
        /\ ChunkIdsOf(th[t].new_chunks) \subseteq PointIds(collection)
        /\ th[t].old_chunk_ids \ ChunkIdsOf(th[t].new_chunks) # {}

\* the files that had a FileRecord when the index call started and are
\* absent from the call's walk
Vanished(t) == th[t].pre_paths \ th[t].walk

IndexCompleted(t) == th[t].op = "index" /\ At(t, "done") /\ th[t].result = "ok"

GoneFromBothStores(f) ==
    /\ FileRows(files, f) = {}
    /\ ChunkRows(chunks, f) = {}
    /\ FilePoints(collection, f) = {}

\* C5 as claimed: after every completed index call the vanished files are
\* gone from both stores and files_deleted is their number.
C5_DeletedFilesCounted ==
    \A t \in Threads :
        IndexCompleted(t) =>
            /\ \A f \in Vanished(t) : GoneFromBothStores(f)
            /\ th[t].files_deleted = Cardinality(Vanished(t))

\* C5 amended: after every completed index call the vanished files are gone
\* from both stores; files_deleted is their number in a call that does not
\* rebuild (no rebuild flag, no recreation reported) and is 0 in a call that
\* rebuilds, which clears the FileRecords before it reads them.
C5_DeletedFilesRemoved ==
    \A t \in Threads :
        IndexCompleted(t) =>
            /\ \A f \in Vanished(t) : GoneFromBothStores(f)
            /\ th[t].files_deleted = IF th[t].rebuild THEN 0 ELSE Cardinality(Vanished(t))

\* a completed call without rebuild that removed a vanished file while another
\* file stays indexed
C5_Witness ==
    \E t \in Threads :
        /\ IndexCompleted(t)
        /\ ~th[t].rebuild
        /\ th[t].files_deleted = 1
        /\ Vanished(t) # {}
        /\ files # {}

\* the thread runs an index call that was asked without the rebuild flag
NoRebuildFlag(t) == th[t].op = "index" /\ (~th[t].rebuild \/ th[t].promoted)

\* C1: idempotence of index.  An index call without the rebuild flag that
\* follows a completed index call, the tree and the embedding model unchanged
\* since that call started, changes no FileRecord, no chunk row and not the
\* number of vector points, and counts no file and no chunk as indexed.  (The
\* repository's last-indexed stamp, which set_repo_last_indexed rewrites on
\* every call, is left out of the comparison.)
C1_IndexIdempotent ==
    [][ \A t \in Threads :
          (InIndexer(t) /\ NoRebuildFlag(t) /\ th[t].succ /\ th[t].clean)
            => /\ files' = files
               /\ chunks' = chunks
               /\ count_chunks(collection') = count_chunks(collection)
               /\ th'[t].files_indexed = 0
               /\ th'[t].chunks_indexed = 0
      ]_vars

\* C6: skipped files are left alone.  While an index call runs that does not
\* rebuild (no rebuild flag, no recreation reported), no step changes the
\* FileRecord, the chunk rows or the vector points of a walked file whose
\* stored hash equals the hash of its text, and the finished call counts as
\* indexed only files it did not skip, with their chunks.
C6_SkippedUntouched ==
    [][ \A t \in Threads :
          (InIndexer(t) /\ ~th[t].rebuild)
            => /\ \A f \in th[t].skipped :
                     /\ FileRows(files', f) = FileRows(files, f)
                     /\ ChunkRows(chunks', f) = ChunkRows(chunks, f)
                     /\ FilePoints(collection', f) = FilePoints(collection, f)
               /\ At(t, "done")
                    => /\ th[t].files_indexed + Cardinality(th[t].skipped)
                            <= th[t].files_scanned
                       /\ th[t].chunks_indexed = Cardinality(Symbols) * th[t].files_indexed
      ]_vars

\* C7: dimension safety.  Whenever ensure_collection is about to report a
\* recreation inside upsert_chunks, and after it has reported one to the
\* indexer, the metadata store holds no files, chunks or repo_meta row at the
\* time the next chunk is written; a call promoted to a rebuild skips no file.
C7_DimensionSafety ==
    \A t \in Threads :
        /\ (At(t, "upsert_vec") /\ th[t].new_chunks # {}
              /\ ensure_collection(collection, th[t].vec_dim, FALSE).recreated)
               => (files = {} /\ chunks = {} /\ repo_meta = {})
        /\ (th[t].op = "index" /\ At(t, "scan") /\ th[t].promoted)
               => (files = {} /\ chunks = {} /\ repo_meta = {})
        /\ (InIndexer(t) /\ th[t].promoted) => th[t].skipped = {}

\* C2: no mix of old and new chunks.  For every pair of a chunk that only the
\* old chunk set of a file holds and a chunk that only its new chunk set
\* holds, of any index call that re-indexes the file between the query's
\* search and its join, the matches a query returns never hold both.
C2_NoOldNewMix ==
    \A t \in Threads :
        (th[t].op = "query" /\ At(t, "done") /\ th[t].result = "ok")
          => \A pair \in th[t].old_new :
                ~(pair \subseteq { th[t].matches[k].chunk_id : k \in 1..Len(th[t].matches) })

\* a query whose search and join fell into the re-index of an edited file
\* returned chunks of that file, one of them of the old or the new set only
C2_Witness ==
    \E t \in Threads :
        /\ th[t].op = "query" /\ At(t, "done") /\ th[t].result = "ok"
        /\ th[t].old_new # {}
        /\ Len(th[t].matches) >= 2
        /\ \E k \in 1..Len(th[t].matches) :
              th[t].matches[k].chunk_id \in UNION th[t].old_new

\* C9: search on a missing or mismatched collection.  A search step on a
\* missing collection yields an empty hit list; on a collection whose size
\* differs from the query vector's it fails with INDEX_DIMENSION_MISMATCH,
\* carries the collection's size and the vector's size and yields no hits; in
\* both cases the collection is left as it was.
C9_SearchMissingOrMismatch ==
    [][ \A t \in Threads :
          (At(t, "q_search") /\ th'[t].pc # "q_search")
            => /\ ~collection.exists
                    => /\ th'[t].pc = "q_join"
                       /\ th'[t].hits = {}
                       /\ collection' = collection
               /\ (collection.exists /\ collection.size # th[t].vec_dim)
                    => /\ th'[t].result = "error"
                       /\ th'[t].code = "INDEX_DIMENSION_MISMATCH"
                       /\ th'[t].details = <<collection.size, th[t].vec_dim>>
                       /\ th'[t].hits = {}
                       /\ collection' = collection
      ]_vars

\* a query failed on a populated collection of another size than its vector
C9_Witness ==
    \E t \in Threads :
        /\ th[t].op = "query" /\ At(t, "done")
        /\ th[t].code = "INDEX_DIMENSION_MISMATCH"
        /\ th[t].details = <<collection.size, th[t].vec_dim>>
        /\ collection.points # {}

Contains(reason, phrase) == \E k \in 1..Len(reason) : reason[k] = phrase

\* C10: failures of the external models never fail a query.  A query that
\* found at least one candidate match returns matches and a selection
\* whatever the rewriting LLM, the cross-encoder and the Gemini reranker did;
\* when the Gemini rerank failed the selection is the top match's file and
\* start line with source vector, used_gemini false and a reason containing
\* "rerank failed".
C10_ModelFailuresRecoverable ==
    \A t \in Threads :
        (th[t].op = "query" /\ At(t, "done") /\ th[t].candidates >= 1)
          => /\ th[t].result = "ok"
             /\ th[t].matches # <<>>
             /\ th[t].selection # NoSelection
             /\ th[t].llm = "fail"
                  => /\ th[t].selection.file = th[t].matches[1].file_path
                     /\ th[t].selection.line = th[t].matches[1].start_line
                     /\ th[t].selection.source = "vector"
                     /\ ~th[t].used_gemini
                     /\ Contains(th[t].selection.reason, "rerank failed")

\* C11: the LLM reranker is engaged only below the threshold.  A decide call
\* whose first match has vector_score >= threshold returns that match's file
\* and start_line with source vector and used_gemini false, and at no point of
\* a decide call has a model call (rewrite or rerank) been made for such a list.
C11_ConfidentBypass ==
    (reranker.matches # <<>> /\ reranker.matches[1].vector_score >= threshold)
      => /\ reranker.calls = 0
         /\ reranker.pc = "done"
              => /\ reranker.decided
                 /\ reranker.selection.file = reranker.matches[1].file_path
                 /\ reranker.selection.line = reranker.matches[1].start_line
                 /\ reranker.selection.source = "vector"
                 /\ ~reranker.used_gemini

\* decide has returned for a list of several matches whose first match sits
\* exactly on the threshold
C11_Witness ==
    /\ reranker.pc = "done"
    /\ Len(reranker.matches) >= 2
    /\ reranker.matches[1].vector_score = threshold
    /\ reranker.selection.source = "vector"

\* C12: every selection accepted from the LLM is validated.  When decide
\* returns the model's choice, the payload had a non-empty string file, a
\* positive integer line and a non-empty string reason; the selection names
\* the payload's file, which is the file of one of the first max_candidates
\* matches, and its line lies within the range of a candidate of that file:
\* the payload's line if some candidate range of the file holds it, otherwise
\* the start_line of a highest-scoring candidate of the file.
C12_SelectionValidated ==
    (reranker.pc = "done" /\ reranker.used_gemini)
      => LET c == Candidates(reranker.matches)
             p == reranker.payload[1]
             sel == reranker.selection
             same == { k \in 1..Len(c) : c[k].file_path = sel.file }
             holds(k, l) == c[k].start_line <= l /\ l <= c[k].end_line
         IN /\ p.file.t = "str" /\ p.file.s # ""
            /\ p.line.t = "int" /\ p.line.n > 0
            /\ p.reason.t = "str" /\ p.reason.s # ""
            /\ sel.file = p.file.s
            /\ sel.source = "gemini"
            /\ \E k \in same : holds(k, sel.line)
            /\ IF \E k \in same : holds(k, p.line.n)
               THEN sel.line = p.line.n
               ELSE \E k \in same :
                       /\ \A j \in same : c[k].score >= c[j].score
                       /\ sel.line = c[k].start_line

\* C13: selection provenance.  Every selection a query returns has source
\* vector or gemini (the spec's "llm"), and source is gemini exactly when
\* used_gemini is true; with the Gemini reranker disabled and at least one
\* match the selection is the first match's file and start_line with source
\* vector; with no match there is no selection and used_gemini is false.
C13_SelectionProvenance ==
    \A t \in Threads :
        (th[t].op = "query" /\ At(t, "done") /\ th[t].result = "ok")
          => /\ th[t].selection # NoSelection
                  => th[t].selection.source \in {"vector", "gemini"}
             /\ th[t].used_gemini <=> th[t].selection.source = "gemini"
             /\ (th[t].llm = "disabled" /\ th[t].candidates >= 1)
                  => /\ th[t].selection.file = th[t].matches[1].file_path
                     /\ th[t].selection.line = th[t].matches[1].start_line
                     /\ th[t].selection.source = "vector"
             /\ th[t].candidates = 0
                  => /\ th[t].selection = NoSelection
                     /\ ~th[t].used_gemini
                     /\ th[t].matches = <<>>

\* a query over several candidates returned the model's choice
C13_Witness ==
    \E t \in Threads :
        /\ th[t].op = "query" /\ At(t, "done") /\ th[t].result = "ok"
        /\ th[t].candidates >= 2
        /\ th[t].used_gemini
        /\ th[t].selection.source = "gemini"

\* C15: query result membership.  When a query joins its vector hits with the
\* metadata store, every match it returns is a row the store held at that
\* moment whose chunk_id is one of the hits; hits without a row are dropped and
\* the query still succeeds; the returned matches are at most top_k.  (Checked
\* with the daemon's default settings, under which no reranker runs.)
C15_ResultMembership ==
    [][ \A t \in Threads :
          (At(t, "q_join") /\ th'[t].pc = "done")
            => /\ th'[t].result = "ok"
               /\ \A k \in 1..Len(th'[t].matches) :
                     /\ th'[t].matches[k].chunk_id \in th[t].hits
                     /\ th'[t].matches[k] \in chunks
               /\ \A id \in th'[t].stale :
                     \A k \in 1..Len(th'[t].matches) : th'[t].matches[k].chunk_id # id
               /\ Len(th'[t].matches) <= th'[t].top_k
               /\ Len(th'[t].matches) <= Cardinality(th[t].hits)
      ]_vars

\* a query returned a match although one of its vector hits had lost its row
\* between the search and the fetch
C15_Witness ==
    \E t \in Threads :
        /\ th[t].op = "query" /\ At(t, "done") /\ th[t].result = "ok"
        /\ th[t].stale # {}
        /\ th[t].matches # <<>>

\* C14: the top match has the highest score.  In every list of matches a
\* query returns, the first match's score is greater than or equal to the
\* score of every other match.
C14_TopScoreIsMax ==
    (ranking.pc = "done" /\ ranking.result = "ok")
      => \A k \in 1..Len(ranking.matches) :
            ranking.matches[1].score >= ranking.matches[k].score

\* C16 as stated: an invocation that repeats the one before it (same method,
\* model name and prompt) has the same result, does not call the model, and
\* reports latency 0 when it returns.
C16_SecondInvocationCached ==
    [][ gemini'.cur.repeat
          => /\ gemini'.cur.status = gemini.cur.status
             /\ gemini'.cur.value = gemini.cur.value
             /\ ~gemini'.cur.called
             /\ gemini'.cur.status = "ok" => gemini'.cur.latency = 0
      ]_vars

\* C16, amended: an invocation that repeats the one before it, when that one
\* obtained the model's text (from the model or from the cache), has the same
\* result (the same value or the same parse error), does not call the model,
\* and reports latency 0 when it returns.
C16_CachedAfterSuccess ==
    [][ (gemini'.cur.repeat /\ gemini.cur.stored)
          => /\ gemini'.cur.status = gemini.cur.status
             /\ gemini'.cur.value = gemini.cur.value
             /\ ~gemini'.cur.called
             /\ gemini'.cur.status = "ok" => gemini'.cur.latency = 0
      ]_vars

\* a repeated invocation was answered from the cache
C16_Witness ==
    /\ gemini.cur.repeat
    /\ gemini.cur.status = "ok"
    /\ ~gemini.cur.called
    /\ gemini.cur.latency = 0

\* C17 as stated: with rewrite enabled, a rewrite of the query of the call
\* before it, which called the LLM once, returns the same output without
\* another LLM call; and a disabled rewriter, one without a client, a blank
\* query or a failed LLM call give the original query, changed = false and no
\* latency.
C17_RewriteOnce ==
    [][ /\ ( /\ rewriter'.cur.repeat
             /\ rewriter.enabled /\ rewriter.has_client /\ Strip(rewriter.cur.query) # ""
             /\ rewriter.cur.client_calls = 1 )
          => /\ rewriter'.cur.out = rewriter.cur.out
             /\ rewriter'.cur.client_calls = 0
             /\ rewriter'.cur.model_calls = 0
        /\ ( \/ ~rewriter'.enabled \/ ~rewriter'.has_client
             \/ Strip(rewriter'.cur.query) = "" \/ rewriter'.cur.failed )
          => rewriter'.cur.out = rewrite_fallback(rewriter'.cur.query)
      ]_vars

\* C17, amended: the second rewrite makes no LLM call and returns the first
\* one's output (with the first one's latency) when the first one's LLM call
\* succeeded; the fallback part as stated.
C17_RewriteOnceAfterSuccess ==
    [][ /\ ( /\ rewriter'.cur.repeat
             /\ rewriter.enabled /\ rewriter.has_client /\ Strip(rewriter.cur.query) # ""
             /\ rewriter.cur.client_calls = 1 /\ ~rewriter.cur.failed )
          => /\ rewriter'.cur.out = rewriter.cur.out
             /\ rewriter'.cur.client_calls = 0
             /\ rewriter'.cur.model_calls = 0
        /\ ( \/ ~rewriter'.enabled \/ ~rewriter'.has_client
             \/ Strip(rewriter'.cur.query) = "" \/ rewriter'.cur.failed )
          => rewriter'.cur.out = rewrite_fallback(rewriter'.cur.query)
      ]_vars

\* a repeated rewrite returned a cached rewrite with the latency of the first
C17_Witness ==
    /\ rewriter.enabled /\ rewriter.has_client
    /\ rewriter.cur.repeat
    /\ rewriter.cur.client_calls = 0
    /\ rewriter.cur.out.changed
    /\ rewriter.cur.out.latency = 42

\* C18: a model call keeps its caller at most timeout_seconds, and a call that
\* did not complete in time fails with an error whose type is none of the
\* types of the client's other model failures.
C18_TimeoutTyped ==
    /\ pool.cur.waited <= timeout_seconds
    /\ pool.cur.timed_out
         => /\ pool.cur.waited = timeout_seconds
            /\ pool.cur.error # ""
            /\ pool.cur.error \notin FailureErrors(pool.cur.client)

\* C19: a call of embed_texts that returns sends to the model exactly the
\* texts whose key was in neither cache; afterwards every key of the call is
\* in both caches with the same vector, and a vector that was cached is
\* returned as the persistent cache holds it. A second embed_texts([t]) calls
\* no model and returns the vector of the persisted entry.
C19_TwoTierCache ==
    [][ LET cur == embedder'.cur
            n == Len(cur.result_keys)
            had_memory == DOMAIN embedder.memory_cache
            had_persisted == DOMAIN embedder.persisted
            Missing == { i \in 1..n : cur.result_keys[i] \notin had_memory \cup had_persisted }
        IN /\ (cur.status = "ok" /\ cur.texts # <<>>)
                => /\ \A i \in 1..n :
                        LET key == cur.result_keys[i]
                        IN /\ key \in DOMAIN embedder'.memory_cache
                           /\ key \in DOMAIN embedder'.persisted
                           /\ embedder'.memory_cache[key] = FromRow(embedder'.persisted[key])
                           /\ key \in had_persisted
                                => /\ cur.vectors[i] = FromRow(embedder.persisted[key])
                                   /\ embedder'.persisted[key] = embedder.persisted[key]
                           /\ key \in had_memory
                                => cur.vectors[i] = embedder.memory_cache[key]
                   /\ had_memory \subseteq had_persisted
                   /\ Len(cur.encoded) = Cardinality(Missing)
                   /\ \A i \in Missing :
                        \E p \in 1..Len(cur.encoded) : cur.encoded[p] = cur.texts[i]
           /\ ( /\ embedder.cur.status = "ok" /\ cur.status = "ok"
                /\ Len(cur.texts) = 1 /\ cur.texts = embedder.cur.texts
                /\ ~cur.keys.given /\ ~embedder.cur.keys.given )
                => /\ cur.encoded = <<>>
                   /\ cur.vectors[1] = FromRow(embedder'.persisted[hash_text(cur.texts[1])])
                   /\ cur.vectors = embedder.cur.vectors
      ]_vars

\* a second embed_texts([t]) was answered from the caches, which the first
\* one had filled from the model
C19_Witness ==
    /\ embedder.cur.status = "ok"
    /\ Len(embedder.cur.texts) = 1 /\ ~embedder.cur.keys.given
    /\ embedder.cur.encoded = <<>>
    /\ hash_text(embedder.cur.texts[1]) \in DOMAIN embedder.memory_cache
    /\ embedder.cur.vectors[1] = FromRow(embedder.persisted[hash_text(embedder.cur.texts[1])])

\* C20: a call of embed_texts with a keys list whose length differs from the
\* number of texts raises, the model is not called and neither cache changes.
C20_KeysLengthEnforced ==
    [][ ( /\ embedder'.cur.status # "none"
          /\ embedder'.cur.keys.given
          /\ Len(embedder'.cur.keys.list) # Len(embedder'.cur.texts) )
          => /\ embedder'.cur.status = "ValueError"
             /\ embedder'.cur.encoded = <<>>
             /\ embedder'.memory_cache = embedder.memory_cache
             /\ embedder'.persisted = embedder.persisted
      ]_vars

\* C21: clear_repo(repo) deletes every files, chunks and repo_meta row of that
\* repository, keeps every row of the other repositories, and leaves the
\* embedding cache and the summary cache as they were.
C21_ClearRepoFrame ==
    [][ call'.op = "clear_repo"
          => LET repo == call'.repo_path
             IN /\ mstore'.files = { r \in mstore.files : r.repo_path # repo }
                /\ DOMAIN mstore'.chunks
                     = { id \in DOMAIN mstore.chunks : mstore.chunks[id].repo_path # repo }
                /\ \A id \in DOMAIN mstore'.chunks : mstore'.chunks[id] = mstore.chunks[id]
                /\ mstore'.repo_meta = mstore.repo_meta \ {repo}
                /\ mstore'.embeddings = mstore.embeddings
                /\ mstore'.llm_summaries = mstore.llm_summaries
      ]_vars

\* repository A was cleared while repository B had rows in the three tables
\* and both caches had entries
C21_Witness ==
    /\ call.op = "clear_repo" /\ call.repo_path = "A" /\ call.deleted = 3
    /\ \E r \in mstore.files : r.repo_path = "B"
    /\ \E id \in DOMAIN mstore.chunks : mstore.chunks[id].repo_path = "B"
    /\ "B" \in mstore.repo_meta
    /\ DOMAIN mstore.embeddings # {} /\ DOMAIN mstore.llm_summaries # {}

\* C22: after upsert_chunks(batch), get_chunks_by_ids([id]) of every chunk_id
\* of the batch returns one entry, equal field for field to the last chunk of
\* the batch with that id, whatever row the id had before; rows of other ids
\* are as before; get_chunks_by_ids returns the ids that have a row and no
\* others, and changes nothing.
C22_MetadataRoundTrip ==
    [][ /\ call'.op = "upsert_chunks"
          => LET batch == call'.batch
                 Ids == { batch[i].chunk_id : i \in 1..Len(batch) }
                 Last(id) == batch[CHOOSE i \in 1..Len(batch) :
                                     /\ batch[i].chunk_id = id
                                     /\ \A j \in (i + 1)..Len(batch) : batch[j].chunk_id # id]
             IN /\ \A id \in Ids :
                     LET got == get_chunk_rows(mstore'.chunks, {id})
                     IN DOMAIN got = {id} /\ got[id] = Last(id)
                /\ DOMAIN mstore'.chunks = DOMAIN mstore.chunks \cup Ids
                /\ \A id \in DOMAIN mstore.chunks \ Ids :
                     mstore'.chunks[id] = mstore.chunks[id]
        /\ call'.op = "get_chunks_by_ids"
          => /\ DOMAIN call'.result = call'.chunk_ids \cap DOMAIN mstore.chunks
             /\ mstore' = mstore
      ]_vars

\* a chunk was upserted under a chunk_id that had a row of another repository,
\* and a fetch of that id and of an id without a row returned the new chunk only
C22_Witness ==
    /\ call.op = "get_chunks_by_ids"
    /\ call.chunk_ids = {"c1", "c3"}
    /\ DOMAIN call.result = {"c1"}
    /\ call.result["c1"].repo_path = "B"
    /\ call.result["c1"].keywords = <<"k", "f">>

\* C23: every chunk emitted after the split and merge passes has
\* tokens <= max_tokens, or is one source line that alone exceeds max_tokens
C23_ChunkSizeBound ==
    call.op = "build_chunks" =>
        \A i \in DOMAIN call.chunks :
            \/ estimate_tokens(call.chunks[i].text) <= call.builder.max_tokens
            \/ Len(call.chunks[i].text) = 1

\* C24: any two chunks of a file after the merge pass are nested, the inner one
\* made of a single symbol, or overlap at most at a boundary line, and every
\* chunk has start_line <= end_line
C24_ChunkRanges ==
    call.op = "build_chunks" =>
        /\ \A i \in DOMAIN call.chunks : call.chunks[i].start_line <= call.chunks[i].end_line
        /\ \A i, j \in DOMAIN call.chunks :
               i # j =>
                   LET a == call.chunks[i]
                       b == call.chunks[j]
                   IN \/ a.end_line <= b.start_line
                      \/ b.end_line <= a.start_line
                      \/ /\ b.start_line <= a.start_line /\ a.end_line <= b.end_line
                         /\ Len(a.merged) <= 1
                      \/ /\ a.start_line <= b.start_line /\ b.end_line <= a.end_line
                         /\ Len(b.merged) <= 1

\* C25: score returns total = 0.50*vector + 0.18*keyword + 0.12*symbol
\* + 0.12*intent + 0.08*structural with every component, and so the total,
\* in [0, 1]; the keyword and symbol scores are |query terms /\ chunk terms|
\* over |distinct query terms|, 0 when either side is empty; the intent
\* score is 0 when the query has no intents
C25_ScorerArithmetic ==
    call.op = "score_hit" =>
        LET r == call.scores
            InUnit(f) == f.den > 0 /\ 0 <= f.num /\ f.num <= f.den
            IsOverlap(f, terms) ==
                IF call.query = {} \/ terms = {} THEN f.num = 0
                ELSE f.num * Cardinality(call.query)
                         = Cardinality(call.query \cap terms) * f.den
            all == r.vector.den * r.keyword.den * r.symbol.den * r.intent.den
                       * r.structural.den
        IN /\ \A f \in {r.total, r.vector, r.keyword, r.symbol, r.intent, r.structural} :
                  InUnit(f)
           /\ r.total.den = 100 * all
           /\ r.total.num = 50 * r.vector.num * (all \div r.vector.den)
                             + 18 * r.keyword.num * (all \div r.keyword.den)
                             + 12 * r.symbol.num * (all \div r.symbol.den)
                             + 12 * r.intent.num * (all \div r.intent.den)
                             + 8 * r.structural.num * (all \div r.structural.den)
           /\ IsOverlap(r.keyword, call.chunk.keywords)
           /\ IsOverlap(r.symbol, call.chunk.symbol_terms)
           /\ call.query_signal.intents = {} => r.intent.num = 0

\* C25 witness: a query of three terms, two of them among the keywords and the
\* symbol terms of a POST route chunk, with a negative vector score
C25_Witness ==
    /\ call.op = "score_hit"
    /\ call.query = {"create", "post", "api"}
    /\ call.vector_score = -1
    /\ call.scores.vector = [num |-> 1, den |-> 4]
    /\ call.scores.keyword = [num |-> 2, den |-> 3]
    /\ call.scores.symbol = [num |-> 2, den |-> 3]
    /\ call.scores.intent = [num |-> 1, den |-> 1]
    /\ call.scores.structural.num > 0
    /\ call.scores.total.num < call.scores.total.den

\* C26: the multiplier is the product of the applicable factors, each taken
\* once, 1.0 when none applies: intent_boost when a query intent has its
\* {intent}_resource tag on the chunk, route_boost when the query has a route
\* hint and the chunk is a route chunk, noise_penalty when the chunk has a
\* negative tag; the adjusted score is total times multiplier and
\* matched_keywords has at most 8 entries
C26_HeuristicMultiplier ==
    call.op = "score_hit" =>
        LET d == call.decision
            tags == call.chunk.intent_tags
            Factor(applies, factor) == IF applies THEN factor ELSE 10
            intent_applies ==
                \E intent \in call.query_signal.intents : (intent \o "_resource") \in tags
            route_applies ==
                /\ call.query \cap {"create", "post", "api", "endpoint", "route"} # {}
                /\ \/ call.chunk.route_method # "None"
                   \/ "route_handler" \in tags
                   \/ call.chunk.symbol_kind = "route"
            noise_applies ==
                tags \cap {"seed_data", "migration_script", "test_script", "script"} # {}
        IN /\ 1000 * d.multiplier.num
                  = d.multiplier.den * Factor(intent_applies, call.heuristics.intent_boost)
                                     * Factor(route_applies, call.heuristics.route_boost)
                                     * Factor(noise_applies, call.heuristics.noise_penalty)
           /\ call.adjusted_total.num = call.scores.total.num * d.multiplier.num
           /\ call.adjusted_total.den = call.scores.total.den * d.multiplier.den
           /\ Len(d.matched_keywords) <= 8

\* C26 witness: all three factors apply and ten query terms are among the
\* chunk's terms
C26_Witness ==
    /\ call.op = "score_hit"
    /\ Cardinality(call.query \cap call.chunk.keywords) = 10
    /\ Len(call.decision.matched_keywords) = 8
    /\ call.chunk.intent_tags = {"create_resource", "test_script"}
    /\ 1000 * call.decision.multiplier.num = 1092 * call.decision.multiplier.den
    /\ call.scores.total.num > 0

\* C27: extract_intent_metadata emits the tag route_handler whenever a route
\* signal exists or symbol_kind is "route", and the tag {intent}_resource of
\* the route signal's intent, the intent being post -> create, put and patch
\* -> update, delete -> delete, get -> read; when no HTTP method is found all
\* four route fields are absent
C27_IntentMetadata ==
    call.op = "extract_intent_metadata" =>
        LET meta == call.meta
            found == IF call.text.js[1] # "None" THEN call.text.js[1]
                     ELSE IF call.text.py[1] # "None" THEN call.text.py[1]
                     ELSE call.text.generic
        IN /\ (call.route_signal # <<>> \/ call.symbol_kind = "route")
                  => "route_handler" \in meta.intent_tags
           /\ call.route_signal # <<>>
                  => /\ (call.route_signal[1].intent \o "_resource") \in meta.intent_tags
                     /\ meta.route_intent = call.route_signal[1].intent
           /\ found \in {"post", "POST"} => meta.route_intent = "create"
           /\ found \in {"put", "PUT", "patch", "PATCH"} => meta.route_intent = "update"
           /\ found \in {"delete", "DELETE"} => meta.route_intent = "delete"
           /\ found \in {"get", "GET"} => meta.route_intent = "read"
           /\ found = "None"
                  => /\ meta.route_method = "None" /\ meta.route_path = "None"
                     /\ meta.route_intent = "None" /\ meta.route_resource = "None"

\* C28: walk_source_files returns exactly the files with a supported
\* extension whose name is no dotfile and no hardcoded ignored file and is not
\* matched by the root .gitignore, and no ancestor directory of which below the
\* root is a hardcoded ignored directory, a dot-directory or matched by
\* .gitignore
C28_WalkIgnores ==
    call.op = "walk_source_files" =>
        call.files =
            {p \in call.tree :
                /\ detect_language(p[Len(p)]) # "None"
                /\ ~startswith_dot(p[Len(p)])
                /\ p[Len(p)] # ".DS_Store"
                /\ ~ignore_matches(call.gitignore, p, FALSE)
                /\ \A k \in 1..(Len(p) - 1) :
                       /\ p[k] \notin {".git", "node_modules", "dist", "build",
                                       "__pycache__", ".xtrc"}
                       /\ ~startswith_dot(p[k])
                       /\ ~ignore_matches(call.gitignore, SubSeq(p, 1, k), TRUE)}

\* C28 witness: src/main.py, node_modules/x.py, ignored_dir/nested.py and
\* ignored_file.py with a .gitignore of ignored_dir/ and ignored_file.py give
\* exactly src/main.py
C28_Witness ==
    /\ call.op = "walk_source_files"
    /\ call.tree = {<<"src", "main.py">>, <<"node_modules", "x.py">>,
                    <<"ignored_dir", "nested.py">>, <<"ignored_file.py">>}
    /\ Len(call.gitignore) = 1 /\ Cardinality(call.gitignore[1]) = 2
    /\ call.files = {<<"src", "main.py">>}

\* C29: when the LLM call for a chunk fails the chunk is indexed with
\* llm_summary null and the other chunks of the file are still summarized; a
\* generated summary is persisted under its summary key, so a chunk whose
\* summary was persisted under the same model gets that summary again without
\* an LLM call, and a call served from the cache alone has latency 0
C29_SummarizeOnIndex ==
    [][ call'.op = "summarize_chunks"
          => \A i \in DOMAIN call'.chunks :
                 LET key == summary_key(call'.model_name, call'.chunks[i])
                     outcome == call'.outcomes[i]
                     indexed == call'.indexed[i]
                 IN /\ key \in DOMAIN mstore.llm_summaries
                          => /\ indexed.llm_summary = mstore.llm_summaries[key]
                             /\ mstore'.llm_summaries[key] = mstore.llm_summaries[key]
                    /\ (key \notin DOMAIN mstore.llm_summaries /\ outcome.status # "ok")
                          => /\ indexed.llm_summary = "None"
                             /\ key \notin DOMAIN mstore'.llm_summaries
                    /\ (key \notin DOMAIN mstore.llm_summaries /\ outcome.status = "ok")
                          => /\ indexed.llm_summary \in {"sum A", "sum B"}
                             /\ key \in DOMAIN mstore'.llm_summaries
                             /\ mstore'.llm_summaries[key] = indexed.llm_summary
                    /\ call'.llm_calls
                           = Cardinality({j \in DOMAIN call'.chunks :
                                 summary_key(call'.model_name, call'.chunks[j])
                                     \notin DOMAIN mstore.llm_summaries})
                    /\ call'.llm_calls = 0 => call'.latency_ms = 0
      ]_vars

\* C29 witness: of two chunks of a file the first got its summary from the
\* cache, where an earlier call had persisted it, and the LLM call for the
\* second failed: one LLM call, the second chunk is indexed without a summary
C29_Witness ==
    /\ call.op = "summarize_chunks"
    /\ Len(call.chunks) = 2
    /\ call.hits = {"c1"}
    /\ call.llm_calls = 1
    /\ call.outcomes[2].status = "LLMClientTimeoutError"
    /\ call.indexed[1].llm_summary = "sum A"
    /\ call.indexed[2].llm_summary = "None"
    /\ call.latency_ms = 0

\* C30: after every index call that completes without error the chunk ids of
\* the points of the repository's collection are the chunk ids of its rows in
\* the chunks table, and every chunk row belongs to a file with a FileRecord
\* of the chunk's content_hash
C30_StoresInSync ==
    \A t \in Threads :
        IndexCompleted(t) =>
            /\ PointIds(collection) = ChunkIdsOf(chunks)
            /\ \A r \in chunks :
                   \E fr \in files :
                       fr.file_path = r.file_path /\ fr.content_hash = r.content_hash

\* C31: when an index call was aborted while it processed a changed file, the
\* hash stored for the file is not the hash the call was writing; and after a
\* later index call completes, the file (if it is still there) has the chunk
\* rows of its content and no point of the collection lacks a chunk row
C31_RecoveryAfterFailure ==
    call.op = "index_failed" =>
        \A t \in Threads :
            /\ (At(t, "done") /\ th[t].result = "error")
                   => \A r \in FileRows(files, call.file_path) :
                          r.content_hash # call.file_hash
            /\ IndexCompleted(t) =>
                   /\ PointIds(collection) \subseteq ChunkIdsOf(chunks)
                   /\ (call.file_path \in th[t].walk /\ fs[call.file_path] # Absent)
                          => ChunkIdsOf(ChunkRows(chunks, call.file_path))
                                 = ChunkIdsOf(build_chunks(call.file_path, fs[call.file_path],
                                                           sha256_text(fs[call.file_path])))

\* C32: every vector list embed_texts returns to the indexer has the
\* dimension of the running model, and after every completed index call the
\* repository's collection has that dimension
C32_DimensionAfterIndex ==
    \A t \in Threads :
        /\ At(t, "upsert_vec") => th[t].vec_dim = modelDim
        /\ IndexCompleted(t) => (collection.exists /\ collection.size = modelDim)

\* C33: under any interleaving of first uses the embedding model is
\* constructed at most once, every read of `dimension` returns the model's
\* dimension, and no thread is handed the loaded model while the dimension
\* is still unset
C33_LazyModelOnce ==
    call.op = "lazy" =>
        /\ call.constructed <= 1
        /\ \A t \in Threads :
               /\ (call.use[t] = "dimension" /\ call.out[t].kind # "")
                      => call.out[t] = [kind |-> "int", value |-> modelDim]
               /\ (call.pc[t] = "m_return" /\ call.model) => call.dimension # 0

\* C34: while no cache entry has been evicted, for the completion calls of one
\* (model_name, prompt), concurrent ones included, the model is invoked at
\* most once apart from invocations that failed, and every caller that gets a
\* text gets the same text
C34_CacheSerialized ==
    (call.op = "lru" /\ ~call.evicted) =>
        \A p \in Prompts :
            /\ call.invoked[p] - call.failed[p] <= 1
            /\ Cardinality(call.served[p]) <= 1

\* C35: a search that runs while ensure_collection drops and recreates the
\* collection never fails because the collection went away after the
\* search's existence check: it returns hits or the empty list
C35_QueryDuringRecreate ==
    (call.op = "qdrant" /\ call.dropped /\ call.s_pc = "idle")
        => call.s_out \in {"hits", "[]"}

\* C36: in a metadata store shared by repositories A and B, upsert_chunks of
\* chunks of one repository, clear_repo, upsert_file_hash and
\* set_repo_last_indexed of one repository leave the files rows and the
\* chunks rows of the other repository as they were, also when both hold a
\* chunk with the same chunk_id
C36_RepoIsolation ==
    [][ \A repo \in {"A", "B"} :
           LET RowsOf(store) ==
                   [files |-> { r \in store.files : r.repo_path = repo },
                    chunks |-> { store.chunks[id] :
                                   id \in { x \in DOMAIN store.chunks :
                                              store.chunks[x].repo_path = repo } }]
               other == \/ /\ call'.op = "upsert_chunks"
                           /\ \A k \in 1..Len(call'.batch) : call'.batch[k].repo_path # repo
                        \/ /\ call'.op \in {"clear_repo", "upsert_file_hash",
                                            "set_repo_last_indexed"}
                           /\ call'.repo_path # repo
           IN other => RowsOf(mstore') = RowsOf(mstore)
      ]_vars

\* C37: a completion that failed (timeout, model error, empty response)
\* leaves no entry for its (model, prompt) in the client's cache
C37_FailuresNotCached ==
    rewriter.cur.failed =>
        ~lru_has(rewriter.completion_cache,
                 <<"m", <<"_REWRITE_PROMPT", Strip(rewriter.cur.query)>>>>)

\* C38: LocalReranker.rerank returns its input as it is when the prediction
\* times out or fails; on success each of the first max_candidates matches
\* has score 0.7 * score + 0.3 * sigmoid, these are in descending order of
\* the new score, the other matches follow untouched in their order; the
\* output always holds exactly the chunks of the input, each once
C38_LocalRerank ==
    call.op = "local_rerank" =>
        LET in == call.matches
            out == call.out.matches
            n == Min2(Len(in), call.max_candidates)
        IN /\ Len(out) = Len(in)
           /\ \A k \in 1..Len(in) : \E j \in 1..Len(out) : out[j].id = in[k].id
           /\ ~call.prediction.ok => (out = in /\ ~call.out.used)
           /\ (call.prediction.ok /\ call.enabled /\ Len(in) > 1) =>
                 /\ call.out.used
                 /\ \A j \in 1..n :
                       /\ out[j].id \in 1..n
                       /\ out[j].score = (7 * in[out[j].id].score
                                            + 3 * call.prediction.sig[out[j].id]) \div 10
                 /\ \A j \in 1..(n - 1) : out[j].score >= out[j + 1].score
                 /\ \A j \in (n + 1)..Len(in) : out[j] = in[j]

\* C38 witness: a successful rerank that reorders its window and has a tail
\* with a score above the window's
C38_Witness ==
    /\ call.op = "local_rerank"
    /\ call.out.used
    /\ Len(call.matches) > call.max_candidates
    /\ call.out.matches[1].id # 1
    /\ call.out.matches[Len(call.matches)].score > call.out.matches[1].score

\* C39: a file that cannot be read (it is walked, and reading it raises
\* OSError) does not abort the index call: it is neither a changed nor a
\* deleted file of the call, a call that does not rebuild changes none of
\* its FileRecord, chunk rows and vector points, and the completed call has
\* indexed every walked file that could be read
C39_UnreadableSkipped ==
    [][ \A t \in Threads :
          LET after_scan == th[t].op = "index" /\ InIndexer(t)
                              /\ th[t].pc \notin {"walk", "clear", "ensure",
                                                  "clear_promoted", "scan"}
              unreadable == { f \in th[t].walk : fs[f] = Absent }
          IN after_scan =>
               /\ \A f \in unreadable :
                     /\ \A k \in 1..Len(th[t].changed) : th[t].changed[k].file_path # f
                     /\ \A k \in 1..Len(th[t].deleted) : th[t].deleted[k] # f
                     /\ ~th[t].rebuild =>
                           /\ FileRows(files', f) = FileRows(files, f)
                           /\ ChunkRows(chunks', f) = ChunkRows(chunks, f)
                           /\ FilePoints(collection', f) = FilePoints(collection, f)
               /\ IndexCompleted(t)' =>
                     \A f \in th[t].walk \ unreadable :
                        \E r \in files' : /\ r.file_path = f
                                          /\ r.content_hash = sha256_text(fs[f])
      ]_vars

\* C40: for raw cosine scores a <= b in [-1, 1] the normalized score of a is
\* at most that of b, and both normalized scores lie in [0, 1]
C40_NormalizeMonotone ==
    (/\ call.op = "normalize"
     /\ 0 - Resolution <= call.a /\ call.a <= call.b /\ call.b <= Resolution)
        => /\ call.normalized_a <= call.normalized_b
           /\ 0 <= call.normalized_a /\ call.normalized_a <= 2 * Resolution
           /\ 0 <= call.normalized_b /\ call.normalized_b <= 2 * Resolution

====
